---- MODULE Spec2Model ----
(***************************************************************************)
(* Allocation planner (core/framework/allocation_planner.cc) and parallel  *)
(* executor (core/framework/parallel_executor.cc) of onnxruntime.          *)
(*                                                                         *)
(* A behaviour first runs PlannerImpl::CreatePlan on a graph drawn from a  *)
(* bounded family, pass by pass, and then one ParallelExecutor::Execute    *)
(* over the finished plan, statement by statement for every thread.        *)
(*                                                                         *)
(* Indices: ml-value indices, execution-plan steps (program_counter) and   *)
(* to_be_freed positions are 0-based as in the source.  Node indices are   *)
(* 1-based positions in g.nodes.  A NodeArg that does not exist (a missing *)
(* optional input or output) is written -1.                                *)
(***************************************************************************)
EXTENDS Integers, Sequences, FiniteSets, TLC

VARIABLES
    g,                  \* the graph, its kernels and the planner context (inputs, never changed)
    plan_pc,            \* position of PlannerImpl::CreatePlan
    plan_status,        \* Status returned by the planner passes so far
    ort_value_info_,    \* PlannerImpl::ort_value_info_ : usecount, reused_buffer_index
    allocation_plan,    \* plan_.allocation_plan : AllocPlanPerValue per ml-value
    execution_plan,     \* plan_.execution_plan : node_index, free_from_index, free_to_index
    node_has_fence,     \* plan_.node_has_fence
    to_be_freed,        \* plan_.to_be_freed
    freelist_,          \* PlannerImpl::freelist_, front first
    program_counter,    \* loop variable of ComputeReusePlan
    usecount_at_end,    \* history: the use counts as they were when each step's planning ended
    node_refs_,         \* ParallelExecutor::node_refs_ : input edges not yet satisfied
    out_standings_,     \* ParallelExecutor::out_standings_
    errors_,            \* ParallelExecutor::errors_
    terminate_flag_,    \* the caller's terminate flag
    complete_mutex_,    \* holder of complete_mutex_, or Free
    ref_mutex_,         \* holder of ref_mutex_, or Free
    th,                 \* per thread (0 = the caller in Execute, others = pool tasks): its locals
    events,             \* history, per node: fence hooks, kernel calls and decrements, in order
    result              \* what Execute returned, and whether GetOutputs copied the fetches

planner_vars == <<plan_pc, plan_status, ort_value_info_, allocation_plan, execution_plan,
                  node_has_fence, to_be_freed, freelist_, program_counter, usecount_at_end>>

executor_vars == <<node_refs_, out_standings_, errors_, terminate_flag_, complete_mutex_,
                   ref_mutex_, th, events, result>>

vars == <<g, planner_vars, executor_vars>>

-----------------------------------------------------------------------------
(* Generic helpers *)

Min(S) == CHOOSE x \in S : \A y \in S : x <= y

RECURSIVE SortedSeq(_)
SortedSeq(S) == IF S = {} THEN <<>> ELSE <<Min(S)>> \o SortedSeq(S \ {Min(S)})

Range(s) == {s[i] : i \in DOMAIN s}

-----------------------------------------------------------------------------
(* Shapes and types: TensorShapeProto dimensions and NodeArg types *)

DimValue(n) == [has_value |-> TRUE, dim_value |-> n, has_param |-> FALSE, dim_param |-> ""]
DimParam(p) == [has_value |-> FALSE, dim_value |-> 0, has_param |-> TRUE, dim_param |-> p]
DimNone == [has_value |-> FALSE, dim_value |-> 0, has_param |-> FALSE, dim_param |-> ""]

\* context_.GetShape(arg): known = FALSE is the nullptr result
Shape(dims) == [known |-> TRUE, dims |-> dims]
NoShape == [known |-> FALSE, dims |-> <<>>]

\* a NodeArg's type: tensor or not, and the tensor's element size in bytes
Tensor(shape, size) == [shape |-> shape, elem_size |-> size, is_tensor |-> TRUE]
NonTensor == [shape |-> NoShape, elem_size |-> 0, is_tensor |-> FALSE]

-----------------------------------------------------------------------------
(* The planner's inputs: GraphViewer, kernel registry, execution providers *)

MaxFan == 2         \* widest fan-out of the generated graphs

F4 == Tensor(Shape(<<DimValue(4)>>), 4)      \* float32[4]
F8 == Tensor(Shape(<<DimValue(8)>>), 4)      \* float32[8]
FN == Tensor(Shape(<<DimParam("N")>>), 4)    \* float32[N]
FU == Tensor(NoShape, 4)                     \* float32, shape not inferred

\* A node and the KernelDef bound to it.  alias and inplace are KernelDef::Alias()
\* and MayInplace(): sequences of <<input index, output index>>.  cpu_inputs and
\* cpu_outputs are the argument indices whose memory type is OrtMemTypeCPUInput /
\* OrtMemTypeCPUOutput.
Kernel(op, ins, outs) ==
    [op_type |-> op, inputs |-> ins, implicit |-> <<>>, outputs |-> outs,
     alias |-> <<>>, inplace |-> <<>>, queue |-> 0, provider |-> "Cpu",
     cpu_inputs |-> {}, cpu_outputs |-> {}, has_kernel |-> TRUE, has_provider |-> TRUE]

Graph(nodes, vals, ins, outs) ==
    [nodes |-> nodes, order |-> [i \in 1..Len(nodes) |-> i], values |-> vals,
     inputs |-> ins, initializers |-> {}, initializers_as_inputs |-> {},
     outer_scope |-> <<>>, outputs |-> outs, parent_op |-> "", parallel |-> FALSE]

\* A -> {B1..Bk} -> D.  Values: 0 = X (graph input), 1 = A_out, 1+i = Bi_out,
\* k+2 = D_out (graph output).  Nodes: 1 = A, 1+i = Bi, k+2 = D.  With k = 1 this is
\* the chain A -> B -> C, with k = 2 the diamond.
DiamondGraph(k) ==
    Graph([n \in 1..(k + 2) |->
              IF n = 1 THEN Kernel("Op", <<0>>, <<1>>)
              ELSE IF n = k + 2 THEN Kernel("Op", [i \in 1..k |-> i + 1], <<k + 2>>)
              ELSE Kernel("Op", <<1>>, <<n>>)],
          [v \in 0..(k + 2) |-> F4], <<0>>, <<k + 2>>)

\* Two roots A and E; A feeds B.  Nodes: 1 = A, 2 = E, 3 = B.  Values: 0 = X,
\* 1 = Y (graph inputs), 2 = A_out, 3 = E_out, 4 = B_out; graph outputs E_out, B_out.
TwoRootsGraph ==
    Graph(<<Kernel("Op", <<0>>, <<2>>), Kernel("Op", <<1>>, <<3>>),
            Kernel("Op", <<2>>, <<4>>)>>,
          [v \in 0..4 |-> F4], <<0, 1>>, <<3, 4>>)

\* The empty graph: one graph input, no node, no graph output.
EmptyGraph == Graph(<<>>, [v \in 0..0 |-> F4], <<0>>, <<>>)

\* Subgraph of a Loop node: Identity(x) with x an outer-scope value, the result the
\* subgraph's output.  Values: 0 = x, 1 = Identity_out.
LoopIdentityGraph ==
    [Graph(<<Kernel("Identity", <<0>>, <<1>>)>>, [v \in 0..1 |-> F4], <<>>, <<1>>)
        EXCEPT !.outer_scope = <<0>>, !.parent_op = "Loop"]

\* Weights: W (value 1) is an initializer used by A on a Gpu kernel and by B on Cpu,
\* V (value 2) an initializer only an If node's subgraph reads (implicit input).
\* Values: 0 = X, 1 = W, 2 = V, 3 = A_out, 4 = B_out, 5 = C_out (graph output).
WeightsGraph ==
    [Graph(<<[Kernel("Op", <<0, 1>>, <<3>>) EXCEPT !.provider = "Gpu"],
             Kernel("Op", <<3, 1>>, <<4>>),
             [Kernel("If", <<4>>, <<5>>) EXCEPT !.implicit = <<2>>]>>,
           [v \in 0..5 |-> F4], <<0>>, <<5>>)
        EXCEPT !.initializers = {1, 2}]

\* Mixed shapes and an absent optional output: A has outputs <<absent, A_out>> and a
\* kernel that declares Alias(0, 1), its second output aliasing its input.
\* Values: 0 = X, 1 = A_out float32[N], 2 = B_out shape unknown, 3 = C_out float32[N],
\* 4 = D_out (graph output).
ShapesGraph ==
    Graph(<<[Kernel("Op", <<0>>, <<-1, 1>>) EXCEPT !.alias = <<<<0, 1>>>>],
            Kernel("Op", <<1>>, <<2>>),
            Kernel("Op", <<2>>, <<3>>), Kernel("Op", <<3, -1>>, <<4>>)>>,
          [v \in 0..4 |-> IF v \in {1, 3} THEN FN ELSE IF v = 2 THEN FU ELSE F4],
          <<0>>, <<4>>)

\* A Gpu node A with a second output nobody reads, feeding a Cpu node B whose output
\* nobody reads either; A_out is the graph output.  Nodes: 1 = A, 2 = B.
\* Values: 0 = X, 1 = A_out, 2 = A_dead, 3 = B_out.
DeadOutputGraph ==
    Graph(<<[Kernel("Op", <<0>>, <<1, 2>>) EXCEPT !.provider = "Gpu"],
            Kernel("Op", <<1>>, <<3>>)>>,
          [v \in 0..3 |-> F4], <<0>>, <<1>>)

\* The diamond followed by a node E that reads D_out, so that D_out is not a graph
\* output.  Nodes: 1 = A, 2 = B, 3 = C, 4 = D, 5 = E.  Values: 0 = X, 1 = A_out,
\* 2 = B_out, 3 = C_out, 4 = D_out, 5 = E_out (graph output).
SinkDiamondGraph ==
    Graph(<<Kernel("Op", <<0>>, <<1>>), Kernel("Op", <<1>>, <<2>>), Kernel("Op", <<1>>, <<3>>),
            Kernel("Op", <<2, 3>>, <<4>>), Kernel("Op", <<4>>, <<5>>)>>,
          [v \in 0..5 |-> F4], <<0>>, <<5>>)

\* Subgraph of a Loop node whose Identity reads a value computed in the subgraph:
\* Op(x) -> Identity, x an outer-scope value.  Values: 0 = x, 1 = Op_out,
\* 2 = Identity_out (the subgraph's output).
LoopBodyGraph ==
    [Graph(<<Kernel("Op", <<0>>, <<1>>), Kernel("Identity", <<1>>, <<2>>)>>,
           [v \in 0..2 |-> F4], <<>>, <<2>>)
        EXCEPT !.outer_scope = <<0>>, !.parent_op = "Loop"]

\* A -> B where the kernel registry has no kernel for B, and where no execution
\* provider is registered for B.  Values: 0 = X, 1 = A_out, 2 = B_out (graph output).
NoKernelGraph ==
    Graph(<<Kernel("Op", <<0>>, <<1>>),
            [Kernel("Op", <<1>>, <<2>>) EXCEPT !.has_kernel = FALSE]>>,
          [v \in 0..2 |-> F4], <<0>>, <<2>>)

NoProviderGraph ==
    Graph(<<Kernel("Op", <<0>>, <<1>>),
            [Kernel("Op", <<1>>, <<2>>) EXCEPT !.has_provider = FALSE]>>,
          [v \in 0..2 |-> F4], <<0>>, <<2>>)

\* Several buffers on the freelist at once: A has four outputs, B reads them in the
\* order A2, A3, A1, A4, C reads B_out and D reads C_out.  Nodes: 1 = A, 2 = B, 3 = C,
\* 4 = D.  Values: 0 = X, 1 = A1 float32[8], 2 = A2, 3 = A3 float32[4], 4 = A4 shape
\* unknown, 5 = B_out, 6 = C_out, 7 = D_out (graph output).
FreelistGraph ==
    Graph(<<Kernel("Op", <<0>>, <<1, 2, 3, 4>>), Kernel("Op", <<2, 3, 1, 4>>, <<5>>),
            Kernel("Op", <<5>>, <<6>>), Kernel("Op", <<6>>, <<7>>)>>,
          [v \in 0..7 |-> IF v = 1 THEN F8 ELSE IF v = 4 THEN FU ELSE F4], <<0>>, <<7>>)

Topologies == {DiamondGraph(k) : k \in 1..MaxFan}
                 \cup {TwoRootsGraph, EmptyGraph, LoopIdentityGraph, WeightsGraph, ShapesGraph,
                       DeadOutputGraph, SinkDiamondGraph, LoopBodyGraph,
                       NoKernelGraph, NoProviderGraph, FreelistGraph}

\* What the kernel registry may say about a node's kernel: nothing, output 0 may be
\* computed in place of input 0, or output 0 must alias input 0.
KernelKinds == {"plain", "inplace", "alias"}

\* The graph b with the kernels kinds[n] bound to its nodes, node q (if any) on
\* execution queue 1, planned for parallel execution iff par.
WithKernels(b, kinds, q, par) ==
    [b EXCEPT !.parallel = par,
              !.nodes = [n \in DOMAIN b.nodes |->
                  [b.nodes[n] EXCEPT
                      !.alias = IF kinds[n] = "alias" THEN <<<<0, 0>>>> ELSE @,
                      !.inplace = IF kinds[n] = "inplace" THEN <<<<0, 0>>>> ELSE @,
                      !.queue = IF n = q THEN 1 ELSE @]]]

PlanGraphs ==
    UNION {{WithKernels(b, kinds, q, par) :
                kinds \in [DOMAIN b.nodes -> KernelKinds],
                q \in 0..Len(b.nodes), par \in BOOLEAN} : b \in Topologies}

-----------------------------------------------------------------------------
(* PlannerImpl: accessors *)

NodeIds == DOMAIN g.nodes
ValueIds == DOMAIN g.values
NumSteps == Len(g.order)

Exists(arg) == arg >= 0                       \* NodeArg::Exists

\* all definitions of a node that exist: Node::ForEachDef
NodeDefs(node) == {a \in Range(node.inputs) \cup Range(node.implicit) \cup Range(node.outputs) : Exists(a)}

\* graph_viewer_.GetInputsIncludingInitializers() as a set of names
GraphInputsIncludingInitializers == Range(g.inputs) \cup g.initializers_as_inputs

\* exec_provider->GetAllocator(0, mem_type)->Info(): where the provider's allocator
\* for that memory type puts a buffer
AllocatorInfo(provider, mem_type) ==
    IF provider = "Cpu" THEN "Cpu"
    ELSE IF mem_type = "Default" THEN provider
    ELSE IF mem_type = "CPUInput" THEN "Cpu"
    ELSE "Pinned"

DefaultCpuMemoryInfo == "Cpu"                 \* execution_providers_.GetDefaultCpuMemoryInfo()

InputMemoryType(node, i) == IF i \in node.cpu_inputs THEN "CPUInput" ELSE "Default"
OutputMemoryType(node, i) == IF i \in node.cpu_outputs THEN "CPUOutput" ELSE "Default"

\* A value-initialised AllocPlanPerValue and OrtValueInfo (Initialize resizes the vectors)
DefaultAllocPlan ==
    [alloc_kind |-> "kAllocate", reused_buffer |-> 0, location |-> "Unset",
     create_fence_if_async |-> FALSE]
DefaultValueInfo == [usecount |-> 0, reused_buffer_index |-> -1]

UseCount(info, n) == info[n].usecount
Buffer(info, n) == info[n].reused_buffer_index

ProcessDef(info, id) ==
    [info EXCEPT ![id] = [usecount |-> 0, reused_buffer_index |-> id]]

IncUseCount(info, n) == [info EXCEPT ![n].usecount = @ + 1]

SetLocation(plan, index, loc) == [plan EXCEPT ![index].location = loc]

-----------------------------------------------------------------------------
(* PlannerImpl::ComputeUseCounts.  A pass state is [info, plan, status]. *)

\* ProcessDef alone: pre-existing values registered without the caller's use
RECURSIVE DefinePreExistingNoSentinel(_, _, _)
DefinePreExistingNoSentinel(info, names, i) ==
    IF i > Len(names) THEN info
    ELSE DefinePreExistingNoSentinel(ProcessDef(info, names[i]), names, i + 1)
\* ProcessDef and the caller's use, for graph inputs, outer-scope args, initializers
RECURSIVE DefinePreExisting(_, _, _)
DefinePreExisting(info, names, i) ==
    IF i > Len(names) THEN info
    ELSE DefinePreExisting(IncUseCount(ProcessDef(info, names[i]), names[i]), names, i + 1)

\* the lambda process_input over defs (Node::ForEachWithIndex skips absent args)
RECURSIVE ProcessInputs(_, _, _, _)
ProcessInputs(st, node, defs, i) ==
    IF i > Len(defs) THEN st
    ELSE IF ~Exists(defs[i]) THEN ProcessInputs(st, node, defs, i + 1)
    ELSE LET name == defs[i]
             info1 == IncUseCount(st.info, name)
             plan1 == IF name \in GraphInputsIncludingInitializers \/ name \in Range(g.outer_scope)
                      THEN SetLocation(st.plan, name,
                                       AllocatorInfo(node.provider, InputMemoryType(node, i - 1)))
                      ELSE st.plan
         IN  ProcessInputs([st EXCEPT !.info = info1, !.plan = plan1], node, defs, i + 1)

RECURSIVE ProcessOutputs(_, _, _)
ProcessOutputs(st, node, i) ==
    IF i > Len(node.outputs) THEN st
    ELSE IF ~Exists(node.outputs[i]) THEN ProcessOutputs(st, node, i + 1)
    ELSE LET index == node.outputs[i]
             info1 == IncUseCount(ProcessDef(st.info, index), index)
             plan1 == SetLocation(st.plan, index,
                                  AllocatorInfo(node.provider, OutputMemoryType(node, i - 1)))
         IN  ProcessOutputs([st EXCEPT !.info = info1, !.plan = plan1], node, i + 1)

\* marking that sets create_fence_if_async for the outputs of the node only
MarkFencesOutputsOnly(plan, node) ==
    IF node.queue # 0
    THEN [v \in DOMAIN plan |->
             IF v \in Range(node.outputs) THEN [plan[v] EXCEPT !.create_fence_if_async = TRUE]
             ELSE plan[v]]
    ELSE plan
\* create_fence_if_async for every def of a node whose kernel runs on a queue other than 0
MarkFences(plan, node) ==
    IF node.queue # 0
    THEN [v \in DOMAIN plan |->
             IF v \in NodeDefs(node) THEN [plan[v] EXCEPT !.create_fence_if_async = TRUE]
             ELSE plan[v]]
    ELSE plan

\* the loop over plan_.execution_plan; s is the 0-based step
RECURSIVE UseCountSteps(_, _)
UseCountSteps(st, s) ==
    IF s >= NumSteps THEN st
    ELSE LET node == g.nodes[execution_plan[s + 1].node_index] IN
         IF ~node.has_kernel THEN [st EXCEPT !.status = "NoKernel"]
         ELSE IF ~node.has_provider THEN [st EXCEPT !.status = "NoProvider"]
         ELSE LET st1 == ProcessInputs(st, node, node.inputs, 1)
                  st2 == ProcessInputs(st1, node, node.implicit, 1)
                  st3 == ProcessOutputs(st2, node, 1)
                  st4 == [st3 EXCEPT !.plan = MarkFences(st3.plan, node)]
              IN  UseCountSteps(st4, s + 1)

\* ComputeUseCounts without the use that stands for the caller's hold on the outputs
CountGraphOutputsSkipped(info, i) == info
\* the closing loop over graph_viewer_.GetOutputs()
RECURSIVE CountGraphOutputs(_, _)
CountGraphOutputs(info, i) ==
    IF i > Len(g.outputs) THEN info
    ELSE CountGraphOutputs(IncUseCount(info, g.outputs[i]), i + 1)

ComputeUseCountsResult ==
    LET info1 == DefinePreExisting(ort_value_info_, g.inputs, 1)
        info2 == DefinePreExisting(info1, g.outer_scope, 1)
        info3 == DefinePreExisting(info2, SortedSeq(g.initializers), 1)
        st == UseCountSteps([info |-> info3, plan |-> allocation_plan, status |-> "OK"], 0)
    IN  IF st.status # "OK" THEN st
        ELSE [st EXCEPT !.info = CountGraphOutputs(st.info, 1)]

-----------------------------------------------------------------------------
(* PlannerImpl::Reuse, SameShape, SameSize, FindReusableInput, FindReusableTensor *)

\* Reuse that does not hand the uses of reused_for over to the buffer's root
ReuseUncounted(st, reused, reused_for, alloc_kind) ==
    LET original == Buffer(st.info, reused) IN
    [st EXCEPT !.info = [st.info EXCEPT ![reused_for].reused_buffer_index = original],
               !.plan = [st.plan EXCEPT ![reused_for].alloc_kind = alloc_kind,
                                        ![reused_for].reused_buffer = original]]

\* Reuse that records the reused value itself, not the root of its buffer, in the plan
ReuseChained(st, reused, reused_for, alloc_kind) ==
    LET original == Buffer(st.info, reused) IN
    [st EXCEPT !.info = [st.info EXCEPT ![reused_for].reused_buffer_index = original,
                                        ![original].usecount = @ + UseCount(st.info, reused_for)],
               !.plan = [st.plan EXCEPT ![reused_for].alloc_kind = alloc_kind,
                                        ![reused_for].reused_buffer = reused]]
\* A reuse state is [info, plan, freelist].
Reuse(st, reused, reused_for, alloc_kind) ==
    LET original == Buffer(st.info, reused) IN
    [st EXCEPT !.info = [st.info EXCEPT ![reused_for].reused_buffer_index = original,
                                        ![original].usecount = @ + UseCount(st.info, reused_for)],
               !.plan = [st.plan EXCEPT ![reused_for].alloc_kind = alloc_kind,
                                        ![reused_for].reused_buffer = original]]

SameShape(shape1, shape2) ==
    /\ Len(shape1.dims) = Len(shape2.dims)
    /\ \A i \in DOMAIN shape1.dims :
          LET val1 == shape1.dims[i]
              val2 == shape2.dims[i]
          IN  \/ val1.has_value /\ val2.has_value /\ val1.dim_value = val2.dim_value
              \/ /\ val1.has_param /\ val2.has_param
                 /\ val1.dim_param = val2.dim_param /\ val1.dim_param # ""

\* SameSize on shapes and types
SameSizeShapes(type1, type2) ==
    type1.elem_size = type2.elem_size /\ SameShape(type1.shape, type2.shape)

\* SameSize on NodeArgs: absent args and unknown shapes are never the same size
SameSize(arg1, arg2) ==
    /\ Exists(arg1) /\ Exists(arg2)
    /\ g.values[arg1].shape.known /\ g.values[arg2].shape.known
    /\ SameSizeShapes(g.values[arg1], g.values[arg2])

\* pairs of a map that name output slot output_arg_num and an input that exists
UsablePairs(map, node, output_arg_num) ==
    {i \in DOMAIN map :
        /\ map[i][2] = output_arg_num
        /\ 0 <= map[i][1] /\ map[i][1] < Len(node.inputs)
        /\ Exists(node.inputs[map[i][1] + 1])}

\* a last-use check that accepts any buffer still in use
LastUseOrShared(info, original) == UseCount(info, original) >= 1
\* the check that an input is on its last use
LastUse(info, original) == UseCount(info, original) = 1

\* [found, reusable_input]
FindReusableInput(info, node, output_arg_num) ==
    LET p_output_arg == node.outputs[output_arg_num + 1]
        aliased == UsablePairs(node.alias, node, output_arg_num)
        inplace == {i \in UsablePairs(node.inplace, node, output_arg_num) :
                       LET input_arg == node.inputs[node.inplace[i][1] + 1] IN
                       /\ LastUse(info, Buffer(info, input_arg))
                       /\ SameSize(input_arg, p_output_arg)}
    IN  IF ~node.has_kernel THEN [found |-> FALSE, reusable_input |-> -1]
        ELSE IF aliased # {}
        THEN [found |-> TRUE, reusable_input |-> node.inputs[node.alias[Min(aliased)][1] + 1]]
        ELSE IF inplace # {}
        THEN [found |-> TRUE, reusable_input |-> node.inputs[node.inplace[Min(inplace)][1] + 1]]
        ELSE [found |-> FALSE, reusable_input |-> -1]

\* freelist positions whose buffer fits output_arg: same location, known shape, same size
FittingEntries(st, output_arg) ==
    {i \in DOMAIN st.freelist :
        LET reusable == st.freelist[i].ml_value IN
        /\ st.plan[reusable].location = st.plan[output_arg].location
        /\ g.values[reusable].shape.known
        /\ SameSizeShapes(g.values[reusable], g.values[output_arg])}

RemoveAt(seq, i) == SubSeq(seq, 1, i - 1) \o SubSeq(seq, i + 1, Len(seq))

\* FindReusableTensor that leaves the entry it returns on the freelist
FindReusableTensorKept(st, output_arg) ==
    LET fits == FittingEntries(st, output_arg) IN
    IF ~g.values[output_arg].shape.known \/ fits = {}
    THEN [found |-> FALSE, reusable_tensor |-> -1, freelist |-> st.freelist]
    ELSE [found |-> TRUE, reusable_tensor |-> st.freelist[Min(fits)].ml_value,
          freelist |-> st.freelist]
\* FindReusableTensor that takes the fitting entry freed longest ago
FindReusableTensorOldest(st, output_arg) ==
    LET fits == FittingEntries(st, output_arg) IN
    IF ~g.values[output_arg].shape.known \/ fits = {}
    THEN [found |-> FALSE, reusable_tensor |-> -1, freelist |-> st.freelist]
    ELSE LET last == CHOOSE i \in fits : \A j \in fits : j <= i IN
         [found |-> TRUE, reusable_tensor |-> st.freelist[last].ml_value,
          freelist |-> RemoveAt(st.freelist, last)]
\* [found, reusable_tensor, freelist]: the first fitting entry, erased from the freelist
FindReusableTensor(st, output_arg) ==
    LET fits == FittingEntries(st, output_arg) IN
    IF ~g.values[output_arg].shape.known \/ fits = {}
    THEN [found |-> FALSE, reusable_tensor |-> -1, freelist |-> st.freelist]
    ELSE [found |-> TRUE, reusable_tensor |-> st.freelist[Min(fits)].ml_value,
          freelist |-> RemoveAt(st.freelist, Min(fits))]

-----------------------------------------------------------------------------
(* PlannerImpl::GeneratePlanForWeights and ComputeReusePlan *)

IsNonTensor(arg) == ~g.values[arg].is_tensor

\* GetLocationForNodeInput
GetLocationForNodeInput(input_index, node) ==
    IF input_index \in node.cpu_inputs THEN DefaultCpuMemoryInfo
    ELSE AllocatorInfo(node.provider, "Default")

\* locations[wt] as a set: one entry per regular input site of the weight
WeightLocations(wt) ==
    UNION {{GetLocationForNodeInput(i - 1, g.nodes[n]) :
               i \in {j \in DOMAIN g.nodes[n].inputs : g.nodes[n].inputs[j] = wt}} :
           n \in NodeIds}

\* loc[0]: the site of the first node, by index, that reads the weight
FirstWeightLocation(wt) ==
    LET n == Min({m \in NodeIds : wt \in Range(g.nodes[m].inputs)})
        i == Min({j \in DOMAIN g.nodes[n].inputs : g.nodes[n].inputs[j] = wt})
    IN  GetLocationForNodeInput(i - 1, g.nodes[n])

GeneratePlanForWeights(plan) ==
    [i \in DOMAIN plan |->
        IF i \in g.initializers /\ WeightLocations(i) # {}
        THEN [plan[i] EXCEPT !.alloc_kind = "kAllocateStatically",
                             !.location = IF Cardinality(WeightLocations(i)) = 1
                                          THEN FirstWeightLocation(i)
                                          ELSE DefaultCpuMemoryInfo]
        ELSE plan[i]]

\* ComputeReusePlan without setup_preexisting
SetupPreExistingSkipped(plan) == plan
\* setup_preexisting over graph inputs and outer-scope args
SetupPreExisting(plan) ==
    [i \in DOMAIN plan |->
        IF i \in Range(g.inputs) \cup Range(g.outer_scope)
        THEN [plan[i] EXCEPT !.alloc_kind = "kPreExisting"]
        ELSE plan[i]]

\* the freelist search made in every execution mode
FreelistReuseAlways == TRUE
\* the freelist search is only made for sequential execution
FreelistReuseEnabled == ~g.parallel

\* the allocation decision for one existing output
PlanOutput(st, node, current, output_arg_num) ==
    LET found_input == FindReusableInput(st.info, node, output_arg_num)
        found_tensor == FindReusableTensor(st, current)
    IN  IF current \in Range(g.outputs)
        THEN LET st1 == [st EXCEPT !.plan[current].alloc_kind = "kAllocateOutput"]
                 input_index == node.inputs[1]
             IN  IF /\ g.parent_op = "Loop" /\ node.op_type = "Identity"
                    /\ st1.plan[input_index].alloc_kind = "kPreExisting"
                 THEN Reuse(st1, input_index, current, "kShare")
                 ELSE st1
        ELSE IF IsNonTensor(current)
        THEN [st EXCEPT !.plan[current].alloc_kind = "kAllocate"]
        ELSE IF found_input.found
        THEN Reuse(st, found_input.reusable_input, current, "kReuse")
        ELSE IF FreelistReuseEnabled /\ found_tensor.found
        THEN Reuse([st EXCEPT !.freelist = found_tensor.freelist],
                   found_tensor.reusable_tensor, current, "kReuse")
        ELSE [st EXCEPT !.plan[current].alloc_kind = "kAllocate"]

\* the loop over pnode->OutputDefs(); output_arg_num counts the outputs that exist
RECURSIVE PlanOutputs(_, _, _, _)
PlanOutputs(st, node, i, output_arg_num) ==
    IF i > Len(node.outputs) THEN st
    ELSE IF ~Exists(node.outputs[i]) THEN PlanOutputs(st, node, i + 1, output_arg_num)
    ELSE PlanOutputs(PlanOutput(st, node, node.outputs[i], output_arg_num),
                     node, i + 1, output_arg_num + 1)

\* ReleaseUse that puts the freed buffer at the back of the freelist
ReleaseUseAtBack(st, sym, pc) ==
    LET original == Buffer(st.info, sym)
        info1 == [st.info EXCEPT ![original].usecount = @ - 1]
    IN  IF UseCount(info1, original) = 0
        THEN [st EXCEPT !.info = info1,
                        !.freelist = @ \o <<[ml_value |-> original, deallocate_point |-> pc]>>]
        ELSE [st EXCEPT !.info = info1]
\* one use of sym is over: its buffer is freed when that was the last use
ReleaseUse(st, sym, pc) ==
    LET original == Buffer(st.info, sym)
        info1 == [st.info EXCEPT ![original].usecount = @ - 1]
    IN  IF UseCount(info1, original) = 0
        THEN [st EXCEPT !.info = info1,
                        !.freelist = <<[ml_value |-> original, deallocate_point |-> pc]>> \o @]
        ELSE [st EXCEPT !.info = info1]

RECURSIVE ReleaseDefs(_, _, _, _)
ReleaseDefs(st, defs, i, pc) ==
    IF i > Len(defs) THEN st
    ELSE IF ~Exists(defs[i]) THEN ReleaseDefs(st, defs, i + 1, pc)
    ELSE ReleaseDefs(ReleaseUse(st, defs[i], pc), defs, i + 1, pc)

\* an iteration that releases the node's inputs and implicit inputs but not its outputs
ReuseStepInputsOnly(st, pc) ==
    LET node == g.nodes[execution_plan[pc + 1].node_index]
        st1 == PlanOutputs(st, node, 1, 0)
        st2 == ReleaseDefs(st1, node.inputs, 1, pc)
    IN  ReleaseDefs(st2, node.implicit, 1, pc)
\* one iteration of the loop over the execution plan
ReuseStep(st, pc) ==
    LET node == g.nodes[execution_plan[pc + 1].node_index]
        st1 == PlanOutputs(st, node, 1, 0)
        st2 == ReleaseDefs(st1, node.inputs, 1, pc)
        st3 == ReleaseDefs(st2, node.implicit, 1, pc)
    IN  ReleaseDefs(st3, node.outputs, 1, pc)

-----------------------------------------------------------------------------
(* PlannerImpl::HasFence, ComputeFenceCheck, GenerateDeallocationPlan *)

\* HasFence that looks at the value's own flag only
HasFenceOwnOnly(plan, arg) == Exists(arg) /\ plan[arg].create_fence_if_async
HasFence(plan, arg) ==
    /\ Exists(arg)
    /\ \/ plan[arg].create_fence_if_async
       \/ /\ plan[arg].alloc_kind = "kReuse"
          /\ plan[plan[arg].reused_buffer].create_fence_if_async

\* node_has_fence after the loop over the execution plan
ComputeFenceCheck(plan, has_fence) ==
    [n \in DOMAIN has_fence |->
        IF \E s \in DOMAIN execution_plan : execution_plan[s].node_index = n
        THEN \E arg \in NodeDefs(g.nodes[n]) : HasFence(plan, arg)
        ELSE has_fence[n]]

\* A NodeExecutionPlan as its constructor leaves it: an empty range to free
NodeExecutionPlan(n) == [node_index |-> n, free_from_index |-> 1, free_to_index |-> 0]

\* The loop over the freelist from its back; i is the 1-based position in the
\* freelist, d == [to_be_freed, execution_plan, has_prev_dealloc_point,
\* prev_dealloc_point, current].
RECURSIVE DeallocationLoop(_, _, _)
DeallocationLoop(d, freelist, i) ==
    IF i < 1 THEN d
    ELSE LET it == freelist[i]
             d1 == [d EXCEPT !.to_be_freed = Append(@, it.ml_value)]
             d2 == IF it.deallocate_point # d1.prev_dealloc_point
                   THEN LET closed ==
                                IF d1.has_prev_dealloc_point
                                THEN [d1.execution_plan EXCEPT
                                         ![d1.prev_dealloc_point + 1].free_to_index = d1.current - 1]
                                ELSE d1.execution_plan
                        IN  [d1 EXCEPT
                                !.prev_dealloc_point = it.deallocate_point,
                                !.has_prev_dealloc_point = TRUE,
                                !.execution_plan =
                                    [closed EXCEPT ![it.deallocate_point + 1].free_from_index = d1.current]]
                   ELSE d1
         IN  DeallocationLoop([d2 EXCEPT !.current = @ + 1], freelist, i - 1)

GenerateDeallocationPlan(freelist, exec) ==
    LET d == DeallocationLoop([to_be_freed |-> <<>>, execution_plan |-> exec,
                               has_prev_dealloc_point |-> FALSE, prev_dealloc_point |-> 0,
                               current |-> 0],
                              freelist, Len(freelist))
    IN  IF d.has_prev_dealloc_point
        THEN [d EXCEPT !.execution_plan[d.prev_dealloc_point + 1].free_to_index = d.current - 1]
        ELSE d

-----------------------------------------------------------------------------
(* PlannerImpl::CreatePlan, pass by pass *)

PlanInit ==
    /\ plan_pc = "start"
    /\ plan_status = "OK"
    /\ ort_value_info_ = <<>>
    /\ allocation_plan = <<>>
    /\ execution_plan = <<>>
    /\ node_has_fence = <<>>
    /\ to_be_freed = <<>>
    /\ freelist_ = <<>>
    /\ program_counter = 0
    /\ usecount_at_end = <<>>

\* Initialize, and the execution order: the graph's topological order
Initialize ==
    /\ plan_pc = "start"
    /\ ort_value_info_' = [v \in ValueIds |-> DefaultValueInfo]
    /\ allocation_plan' = [v \in ValueIds |-> DefaultAllocPlan]
    /\ node_has_fence' = [n \in NodeIds |-> FALSE]
    /\ execution_plan' = [s \in DOMAIN g.order |-> NodeExecutionPlan(g.order[s])]
    /\ plan_pc' = "usecounts"
    /\ UNCHANGED <<g, executor_vars, plan_status, to_be_freed, freelist_, program_counter, usecount_at_end>>

ComputeUseCounts ==
    /\ plan_pc = "usecounts"
    /\ LET st == ComputeUseCountsResult IN
        /\ ort_value_info_' = st.info
        /\ allocation_plan' = st.plan
        /\ plan_status' = st.status
        /\ plan_pc' = IF st.status = "OK" THEN "reuse_begin" ELSE "failed"
    /\ UNCHANGED <<g, executor_vars, execution_plan, node_has_fence, to_be_freed, freelist_, program_counter,
                   usecount_at_end>>

\* ComputeReusePlan up to its loop
ComputeReusePlanBegin ==
    /\ plan_pc = "reuse_begin"
    /\ allocation_plan' = GeneratePlanForWeights(SetupPreExisting(allocation_plan))
    /\ program_counter' = 0
    /\ plan_pc' = "reuse"
    /\ UNCHANGED <<g, executor_vars, plan_status, ort_value_info_, execution_plan, node_has_fence, to_be_freed,
                   freelist_, usecount_at_end>>

\* one iteration of ComputeReusePlan's loop
ComputeReusePlanStep ==
    /\ plan_pc = "reuse"
    /\ program_counter < Len(execution_plan)
    /\ LET st == ReuseStep([info |-> ort_value_info_, plan |-> allocation_plan,
                            freelist |-> freelist_], program_counter) IN
        /\ ort_value_info_' = st.info
        /\ allocation_plan' = st.plan
        /\ freelist_' = st.freelist
        /\ usecount_at_end' = Append(usecount_at_end, [v \in ValueIds |-> UseCount(st.info, v)])
    /\ program_counter' = program_counter + 1
    /\ UNCHANGED <<g, executor_vars, plan_pc, plan_status, execution_plan, node_has_fence, to_be_freed>>

ComputeFenceCheckPass ==
    /\ plan_pc = "reuse"
    /\ program_counter >= Len(execution_plan)
    /\ node_has_fence' = ComputeFenceCheck(allocation_plan, node_has_fence)
    /\ plan_pc' = "dealloc"
    /\ UNCHANGED <<g, executor_vars, plan_status, ort_value_info_, allocation_plan, execution_plan, to_be_freed,
                   freelist_, program_counter, usecount_at_end>>

GenerateDeallocationPlanPass ==
    /\ plan_pc = "dealloc"
    /\ LET d == GenerateDeallocationPlan(freelist_, execution_plan) IN
        /\ to_be_freed' = d.to_be_freed
        /\ execution_plan' = d.execution_plan
    /\ plan_pc' = "done"
    /\ UNCHANGED <<g, executor_vars, plan_status, ort_value_info_, allocation_plan, node_has_fence, freelist_,
                   program_counter, usecount_at_end>>

-----------------------------------------------------------------------------
(* The executor's view of the graph: edges, root nodes *)

\* the node that has value v among its outputs, 0 when v is not a node's output
Producer(v) ==
    IF \E n \in NodeIds : v \in Range(g.nodes[n].outputs)
    THEN CHOOSE n \in NodeIds : v \in Range(g.nodes[n].outputs)
    ELSE 0

\* all inputs of a node, implicit ones after the declared ones: the argument slots
\* that graph edges end at
ArgSlots(node) == node.inputs \o node.implicit

\* number of edges from node n to node m: one per argument slot of m that n feeds
EdgeCount(n, m) ==
    Cardinality({j \in DOMAIN ArgSlots(g.nodes[m]) :
                    Exists(ArgSlots(g.nodes[m])[j]) /\ Producer(ArgSlots(g.nodes[m])[j]) = n})

Predecessors(m) == {n \in NodeIds : EdgeCount(n, m) > 0}

GetInputEdgesCount(m) ==
    Cardinality({j \in DOMAIN ArgSlots(g.nodes[m]) :
                    Exists(ArgSlots(g.nodes[m])[j]) /\ Producer(ArgSlots(g.nodes[m])[j]) # 0})

\* the targets of a node's output edges in the order the edge set keeps them:
\* by target node index
RECURSIVE OutputEdgesFrom(_, _)
OutputEdgesFrom(n, m) ==
    IF m > Len(g.nodes) THEN <<>>
    ELSE [i \in 1..EdgeCount(n, m) |-> m] \o OutputEdgesFrom(n, m + 1)

OutputEdges(n) == OutputEdgesFrom(n, 1)

\* graph_viewer->GetRootNodes(): the nodes without input edges, by index
GetRootNodes == SortedSeq({n \in NodeIds : GetInputEdgesCount(n) = 0})

-----------------------------------------------------------------------------
(* Status values *)

StatusOK == [code |-> "OK", what |-> "", node |-> 0, error |-> "", list |-> <<>>]

\* "Compute failed for node: <name>"
ComputeFailed(node_index) ==
    [code |-> "FAIL", what |-> "Compute failed for node", node |-> node_index, error |-> "",
     list |-> <<>>]

\* what() of the exception the terminate flag throws, and of one a kernel throws
TerminateFlagSet == "Exiting due to terminate flag being set to true."
KernelException == "exception thrown by the kernel"

\* create_exception_message: "Exception running nodes starting at <op> node '<name>'.
\* <ex.what()>", naming the node the task started at
ExceptionStatus(p_node_index, what) ==
    [code |-> "FAIL", what |-> "Exception running nodes starting at", node |-> p_node_index,
     error |-> what, list |-> <<>>]

\* "Multiple errors were found." followed by every error
MultipleErrors(errors) ==
    [code |-> "FAIL", what |-> "Multiple errors were found.", node |-> 0, error |-> "",
     list |-> errors]

-----------------------------------------------------------------------------
(* ParallelExecutor: threads and locks *)

PoolSize == 32                      \* threads of executor_pool_
TaskIds == 1..(MaxFan + 3)          \* names for the tasks handed to the pool
Caller == 0                         \* the thread that calls Execute
Free == -1                          \* a mutex nobody holds

Locals(pc) ==
    [pc |-> pc, p_node_index |-> 0, node_index |-> 0, cur |-> 0, keep_running |-> FALSE,
     it |-> 0, tmp |-> 0, status |-> StatusOK, enq |-> 0, ret |-> ""]

\* tasks a pool thread is running
Running == {t \in TaskIds : th[t].pc \notin {"unused", "queued", "done"}}

\* std::lock_guard / std::unique_lock: a thread passes when nobody holds the mutex
\* EnqueueNode and FinishNodeRun without their lock on complete_mutex_
CompleteMutexNotTaken(t) == TRUE

CompleteMutexAvailable(t) == complete_mutex_ = Free

\* the decrement loop without its lock_guard
RefMutexNotTaken(t) == TRUE

RefMutexAvailable(t) == ref_mutex_ = Free

\* history entries: a fence hook called for a value with a provider type, a kernel
\* call and its return, a decrement of a dependent's count, a start of the node
Event(hook, value, provider) == [hook |-> hook, value |-> value, provider |-> provider]

Log(n, event) == [events EXCEPT ![n] = Append(@, event)]

ExecInit ==
    /\ node_refs_ = [n \in NodeIds |-> GetInputEdgesCount(n)]
    /\ out_standings_ = 0
    /\ errors_ = <<>>
    /\ terminate_flag_ = FALSE
    /\ complete_mutex_ = Free
    /\ ref_mutex_ = Free
    /\ th = [t \in {Caller} \cup TaskIds |-> IF t = Caller THEN Locals("idle") ELSE Locals("unused")]
    /\ events = [n \in NodeIds |-> <<>>]
    /\ result = [returned |-> FALSE, status |-> StatusOK, fetched |-> FALSE]

-----------------------------------------------------------------------------
(* ParallelExecutor::Execute, the caller's thread *)

\* Execute is entered with the finished plan; root_frame_ is created
ExecuteBegin ==
    /\ plan_pc = "done"
    /\ th[Caller].pc = "idle"
    /\ th' = [th EXCEPT ![Caller].pc = "roots", ![Caller].it = 1]
    /\ UNCHANGED <<g, planner_vars, node_refs_, out_standings_, errors_, terminate_flag_,
                   complete_mutex_, ref_mutex_, events, result>>

\* the loop over GetRootNodes(): EnqueueNode for the next root, or on to the wait
EnqueueRoots ==
    /\ th[Caller].pc = "roots"
    /\ IF th[Caller].it > Len(GetRootNodes)
       THEN th' = [th EXCEPT ![Caller].pc = "wait"]
       ELSE th' = [th EXCEPT ![Caller].pc = "enqueue",
                             ![Caller].enq = GetRootNodes[th[Caller].it],
                             ![Caller].ret = "roots",
                             ![Caller].it = @ + 1]
    /\ UNCHANGED <<g, planner_vars, node_refs_, out_standings_, errors_, terminate_flag_,
                   complete_mutex_, ref_mutex_, events, result>>

\* while (out_standings_ > 0) complete_cv_.wait(lock): under complete_mutex_ the
\* caller either finds nothing outstanding or releases the mutex and sleeps
WaitForFinish ==
    /\ th[Caller].pc = "wait"
    /\ CompleteMutexAvailable(Caller)
    /\ th' = [th EXCEPT ![Caller].pc = IF out_standings_ > 0 THEN "waiting" ELSE "collect"]
    /\ UNCHANGED <<g, planner_vars, node_refs_, out_standings_, errors_, terminate_flag_,
                   complete_mutex_, ref_mutex_, events, result>>

\* the status made of the first error alone
ExecuteStatusFirst(errors) == IF errors = <<>> THEN StatusOK ELSE errors[1]

\* the status Execute returns for the errors collected
ExecuteStatus(errors) ==
    IF errors = <<>> THEN StatusOK
    ELSE IF Len(errors) = 1 THEN errors[1]
    ELSE MultipleErrors(errors)

\* after the wait: return the errors, or fetch the outputs and return OK
ExecuteReturn ==
    /\ th[Caller].pc = "collect"
    /\ result' = [returned |-> TRUE, status |-> ExecuteStatus(errors_), fetched |-> errors_ = <<>>]
    /\ th' = [th EXCEPT ![Caller].pc = "returned"]
    /\ UNCHANGED <<g, planner_vars, node_refs_, out_standings_, errors_, terminate_flag_,
                   complete_mutex_, ref_mutex_, events>>

\* the caller of the session sets the terminate flag while Execute runs
SetTerminate ==
    /\ plan_pc = "done"
    /\ th[Caller].pc \notin {"returned"}
    /\ ~terminate_flag_
    /\ terminate_flag_' = TRUE
    /\ UNCHANGED <<g, planner_vars, node_refs_, out_standings_, errors_, complete_mutex_,
                   ref_mutex_, th, events, result>>

-----------------------------------------------------------------------------
(* ParallelExecutor::EnqueueNode, run by the caller or by a task *)

\* under complete_mutex_: with errors recorded return at once, else go on to count
EnqueueTest(t) ==
    /\ th[t].pc = "enqueue"
    /\ CompleteMutexAvailable(t)
    /\ IF errors_ # <<>>
       THEN /\ th' = [th EXCEPT ![t].pc = th[t].ret]
            /\ UNCHANGED complete_mutex_
       ELSE /\ th' = [th EXCEPT ![t].pc = "enqueue_count"]
            /\ complete_mutex_' = t
    /\ UNCHANGED <<g, planner_vars, node_refs_, out_standings_, errors_, terminate_flag_,
                   ref_mutex_, events, result>>

\* EnqueueNode that leaves out_standings_ as it is
EnqueueUncounted(t) ==
    /\ th[t].pc = "enqueue_count"
    /\ complete_mutex_' = Free
    /\ th' = [th EXCEPT ![t].pc = "schedule"]
    /\ UNCHANGED <<g, planner_vars, node_refs_, out_standings_, errors_, terminate_flag_,
                   ref_mutex_, events, result>>
\* out_standings_++ and the end of the locked scope
EnqueueCount(t) ==
    /\ th[t].pc = "enqueue_count"
    /\ out_standings_' = out_standings_ + 1
    /\ complete_mutex_' = Free
    /\ th' = [th EXCEPT ![t].pc = "schedule"]
    /\ UNCHANGED <<g, planner_vars, node_refs_, errors_, terminate_flag_, ref_mutex_, events,
                   result>>

\* executor_pool_->Schedule: a new task that will run RunNodeAsync(p_node_index)
Schedule(t) ==
    /\ th[t].pc = "schedule"
    /\ \E new \in TaskIds :
          /\ th[new].pc = "unused"
          /\ \A other \in TaskIds : other < new => th[other].pc # "unused"
          /\ th' = [th EXCEPT ![t].pc = th[t].ret,
                              ![new] = [Locals("queued") EXCEPT !.p_node_index = th[t].enq,
                                                                !.node_index = th[t].enq]]
    /\ events' = Log(th[t].enq, Event("Schedule", -1, ""))
    /\ UNCHANGED <<g, planner_vars, node_refs_, out_standings_, errors_, terminate_flag_,
                   complete_mutex_, ref_mutex_, result>>

-----------------------------------------------------------------------------
(* ParallelExecutor::RunNodeAsync, run by a pool task *)

\* op_kernel_context.InputFence(i) and its like: the fence of the OrtValue behind an
\* argument; an OrtValue has one when its allocation plan asks for it
FenceOf(arg) == HasFence(allocation_plan, arg)

\* the provider type handed to BeforeUsingAsInput for argument input_index
InputProviderType(node, input_index) ==
    IF InputMemoryType(node, input_index) = "CPUInput" THEN "Cpu" ELSE node.provider

\* the hook calls of one loop over defs, in order; i is the 1-based position
RECURSIVE BeforeInputHooks(_, _, _)
BeforeInputHooks(node, defs, i) ==
    IF i > Len(defs) THEN <<>>
    ELSE (IF Exists(defs[i]) /\ FenceOf(defs[i])
          THEN <<Event("BeforeUsingAsInput", defs[i], InputProviderType(node, i - 1))>>
          ELSE <<>>) \o BeforeInputHooks(node, defs, i + 1)

RECURSIVE FenceHooks(_, _, _, _)
FenceHooks(hook, provider, defs, i) ==
    IF i > Len(defs) THEN <<>>
    ELSE (IF Exists(defs[i]) /\ FenceOf(defs[i]) THEN <<Event(hook, defs[i], provider)>> ELSE <<>>)
         \o FenceHooks(hook, provider, defs, i + 1)

\* "sync before compute" that leaves out the outputs
FenceBeforeInputsOnly(n) ==
    IF node_has_fence[n]
    THEN BeforeInputHooks(g.nodes[n], g.nodes[n].inputs, 1)
         \o BeforeInputHooks(g.nodes[n], g.nodes[n].implicit, 1)
    ELSE <<>>

\* "sync before compute"
FenceBeforeEvents(n) ==
    IF node_has_fence[n]
    THEN BeforeInputHooks(g.nodes[n], g.nodes[n].inputs, 1)
         \o BeforeInputHooks(g.nodes[n], g.nodes[n].implicit, 1)
         \o FenceHooks("BeforeUsingAsOutput", g.nodes[n].provider, g.nodes[n].outputs, 1)
    ELSE <<>>

\* "sync after compute for outputs"
FenceAfterEvents(n) ==
    IF node_has_fence[n]
    THEN FenceHooks("AfterUsedAsInput", "", g.nodes[n].inputs, 1)
         \o FenceHooks("AfterUsedAsInput", "", g.nodes[n].implicit, 1)
         \o FenceHooks("AfterUsedAsOutput", "", g.nodes[n].outputs, 1)
    ELSE <<>>

\* what a kernel's Compute may do: return OK, return a failure, throw
ComputeOutcomes == {"ok", "fail", "throw"}

\* a loop head that also stops the chain when an error has been recorded
CheckTerminateOrErrors(t) ==
    /\ \/ th[t].pc = "queued" /\ Cardinality(Running) < PoolSize
       \/ th[t].pc = "loop"
    /\ IF terminate_flag_ \/ errors_ # <<>>
       THEN th' = [th EXCEPT ![t].pc = "finish",
                             ![t].status = ExceptionStatus(th[t].p_node_index, TerminateFlagSet)]
       ELSE th' = [th EXCEPT ![t].pc = "fence_before"]
    /\ UNCHANGED <<g, planner_vars, node_refs_, out_standings_, errors_, terminate_flag_,
                   complete_mutex_, ref_mutex_, events, result>>

\* the terminate flag tested once, before the loop, not at every iteration
CheckTerminateAtStart(t) ==
    /\ \/ th[t].pc = "queued" /\ Cardinality(Running) < PoolSize
       \/ th[t].pc = "loop"
    /\ IF terminate_flag_ /\ th[t].pc = "queued"
       THEN th' = [th EXCEPT ![t].pc = "finish",
                             ![t].status = ExceptionStatus(th[t].p_node_index, TerminateFlagSet)]
       ELSE th' = [th EXCEPT ![t].pc = "fence_before"]
    /\ UNCHANGED <<g, planner_vars, node_refs_, out_standings_, errors_, terminate_flag_,
                   complete_mutex_, ref_mutex_, events, result>>

\* the head of the while loop, for a task a pool thread picks up or a chain that
\* goes on: the terminate flag throws out of RunNodeAsync
CheckTerminate(t) ==
    /\ \/ th[t].pc = "queued" /\ Cardinality(Running) < PoolSize
       \/ th[t].pc = "loop"
    /\ IF terminate_flag_
       THEN th' = [th EXCEPT ![t].pc = "finish",
                             ![t].status = ExceptionStatus(th[t].p_node_index, TerminateFlagSet)]
       ELSE th' = [th EXCEPT ![t].pc = "fence_before"]
    /\ UNCHANGED <<g, planner_vars, node_refs_, out_standings_, errors_, terminate_flag_,
                   complete_mutex_, ref_mutex_, events, result>>

FenceBefore(t) ==
    /\ th[t].pc = "fence_before"
    /\ events' = [events EXCEPT ![th[t].node_index] = @ \o FenceBeforeEvents(th[t].node_index)]
    /\ th' = [th EXCEPT ![t].pc = "compute"]
    /\ UNCHANGED <<g, planner_vars, node_refs_, out_standings_, errors_, terminate_flag_,
                   complete_mutex_, ref_mutex_, result>>

\* p_op_kernel->Compute is called
Compute(t) ==
    /\ th[t].pc = "compute"
    /\ events' = Log(th[t].node_index, Event("Compute", -1, ""))
    /\ th' = [th EXCEPT ![t].pc = "computing"]
    /\ UNCHANGED <<g, planner_vars, node_refs_, out_standings_, errors_, terminate_flag_,
                   complete_mutex_, ref_mutex_, result>>

\* Compute comes back, with nothing to catch what a kernel throws: the exception
\* ends the task before FinishNodeRun
ComputeReturnUncaught(t) ==
    /\ th[t].pc = "computing"
    /\ \E outcome \in ComputeOutcomes :
          /\ events' = Log(th[t].node_index, Event("ComputeReturn", -1, outcome))
          /\ th' = [th EXCEPT
                       ![t].pc = IF outcome = "ok" THEN "fence_after"
                                 ELSE IF outcome = "fail" THEN "finish" ELSE "done",
                       ![t].status = IF outcome = "ok" THEN @
                                     ELSE IF outcome = "fail" THEN ComputeFailed(th[t].node_index)
                                     ELSE ExceptionStatus(th[t].p_node_index, KernelException)]
    /\ UNCHANGED <<g, planner_vars, node_refs_, out_standings_, errors_, terminate_flag_,
                   complete_mutex_, ref_mutex_, result>>

\* Compute comes back and a failure status does not break out of the loop
ComputeReturnNoBreak(t) ==
    /\ th[t].pc = "computing"
    /\ \E outcome \in ComputeOutcomes :
          /\ events' = Log(th[t].node_index, Event("ComputeReturn", -1, outcome))
          /\ th' = [th EXCEPT
                       ![t].pc = IF outcome = "throw" THEN "finish" ELSE "fence_after",
                       ![t].status = IF outcome = "ok" THEN @
                                     ELSE IF outcome = "fail" THEN ComputeFailed(th[t].node_index)
                                     ELSE ExceptionStatus(th[t].p_node_index, KernelException)]
    /\ UNCHANGED <<g, planner_vars, node_refs_, out_standings_, errors_, terminate_flag_,
                   complete_mutex_, ref_mutex_, result>>
\* Compute comes back: OK, a failure status (break out of the loop), or an exception
\* that the task body catches and turns into a status
ComputeReturn(t) ==
    /\ th[t].pc = "computing"
    /\ \E outcome \in ComputeOutcomes :
          /\ events' = Log(th[t].node_index, Event("ComputeReturn", -1, outcome))
          /\ th' = [th EXCEPT
                       ![t].pc = IF outcome = "ok" THEN "fence_after" ELSE "finish",
                       ![t].status = IF outcome = "ok" THEN @
                                     ELSE IF outcome = "fail" THEN ComputeFailed(th[t].node_index)
                                     ELSE ExceptionStatus(th[t].p_node_index, KernelException)]
    /\ UNCHANGED <<g, planner_vars, node_refs_, out_standings_, errors_, terminate_flag_,
                   complete_mutex_, ref_mutex_, result>>

FenceAfter(t) ==
    /\ th[t].pc = "fence_after"
    /\ events' = [events EXCEPT ![th[t].node_index] = @ \o FenceAfterEvents(th[t].node_index)]
    /\ th' = [th EXCEPT ![t].pc = "lock_ref", ![t].keep_running = FALSE]
    /\ UNCHANGED <<g, planner_vars, node_refs_, out_standings_, errors_, terminate_flag_,
                   complete_mutex_, ref_mutex_, result>>

\* std::lock_guard<OrtMutex> lock(ref_mutex_), with the edge iterator at begin
LockRef(t) ==
    /\ th[t].pc = "lock_ref"
    /\ RefMutexAvailable(t)
    /\ ref_mutex_' = t
    /\ th' = [th EXCEPT ![t].pc = "edges", ![t].cur = th[t].node_index, ![t].it = 1]
    /\ UNCHANGED <<g, planner_vars, node_refs_, out_standings_, errors_, terminate_flag_,
                   complete_mutex_, events, result>>

\* the test taken one decrement too early
IsReadyEarly(refs) == refs <= 1

\* the test that a target has no unsatisfied input edge left
IsReady(refs) == refs = 0

\* the loop over the output edges: at the end the lock is released and the chain
\* goes on or RunNodeAsync returns; else node_refs_[idx] is read for the decrement
EdgeLoad(t) ==
    /\ th[t].pc = "edges"
    /\ IF th[t].it > Len(OutputEdges(th[t].cur))
       THEN /\ ref_mutex_' = Free
            /\ th' = [th EXCEPT ![t].pc = IF th[t].keep_running THEN "loop" ELSE "finish"]
       ELSE /\ th' = [th EXCEPT ![t].pc = "edge_store",
                                ![t].tmp = node_refs_[OutputEdges(th[t].cur)[th[t].it]]]
            /\ UNCHANGED ref_mutex_
    /\ UNCHANGED <<g, planner_vars, node_refs_, out_standings_, errors_, terminate_flag_,
                   complete_mutex_, events, result>>

\* the decremented count is written back and tested: the first target that became
\* ready is the chain's next node, every further one goes to EnqueueNode
EdgeStore(t) ==
    /\ th[t].pc = "edge_store"
    /\ LET idx == OutputEdges(th[t].cur)[th[t].it] IN
        /\ node_refs_' = [node_refs_ EXCEPT ![idx] = th[t].tmp - 1]
        /\ events' = [events EXCEPT
                         ![th[t].cur] = Append(@, Event("Decrement", idx, "")),
                         ![idx] = IF IsReady(th[t].tmp - 1) /\ ~th[t].keep_running
                                  THEN Append(@, Event("Continue", -1, "")) ELSE @]
        /\ IF IsReady(th[t].tmp - 1)
           THEN IF ~th[t].keep_running
                THEN th' = [th EXCEPT ![t].pc = "edges", ![t].it = @ + 1,
                                      ![t].node_index = idx, ![t].keep_running = TRUE]
                ELSE th' = [th EXCEPT ![t].pc = "enqueue", ![t].it = @ + 1,
                                      ![t].enq = idx, ![t].ret = "edges"]
           ELSE th' = [th EXCEPT ![t].pc = "edges", ![t].it = @ + 1]
    /\ UNCHANGED <<g, planner_vars, out_standings_, errors_, terminate_flag_, complete_mutex_,
                   ref_mutex_, result>>

\* FinishNodeRun(status), under complete_mutex_: one task fewer outstanding, a
\* failure is appended to errors_
FinishNodeRun(t) ==
    /\ th[t].pc = "finish"
    /\ CompleteMutexAvailable(t)
    /\ out_standings_' = out_standings_ - 1
    /\ errors_' = IF th[t].status.code # "OK" THEN Append(errors_, th[t].status) ELSE errors_
    /\ th' = [th EXCEPT ![t].pc = IF out_standings_ - 1 = 0 THEN "notify" ELSE "done"]
    /\ UNCHANGED <<g, planner_vars, node_refs_, terminate_flag_, complete_mutex_, ref_mutex_,
                   events, result>>

\* complete_cv_.notify_all() once the mutex is released: a sleeping caller wakes up
\* and takes the mutex again
NotifyAll(t) ==
    /\ th[t].pc = "notify"
    /\ th' = [th EXCEPT ![t].pc = "done",
                        ![Caller].pc = IF @ = "waiting" THEN "wait" ELSE @]
    /\ UNCHANGED <<g, planner_vars, node_refs_, out_standings_, errors_, terminate_flag_,
                   complete_mutex_, ref_mutex_, events, result>>

-----------------------------------------------------------------------------
(* Specifications *)

\* the graphs the executor is run on: planned for parallel execution, every kernel
\* allowing output 0 in place of input 0, node 2 on execution queue 1
ExecGraphs ==
    {WithKernels(b, [n \in DOMAIN b.nodes |-> "inplace"], 2, TRUE) :
        b \in {DiamondGraph(k) : k \in 1..MaxFan} \cup {TwoRootsGraph, EmptyGraph}}

PlanNext ==
    \/ Initialize
    \/ ComputeUseCounts
    \/ ComputeReusePlanBegin
    \/ ComputeReusePlanStep
    \/ ComputeFenceCheckPass
    \/ GenerateDeallocationPlanPass

\* EnqueueNode as the caller or a task runs it
EnqueueNode(t) == EnqueueTest(t) \/ EnqueueCount(t) \/ Schedule(t)

\* the task body handed to the pool: RunNodeAsync, then FinishNodeRun
RunNodeAsync(t) ==
    \/ CheckTerminate(t)
    \/ FenceBefore(t)
    \/ Compute(t)
    \/ ComputeReturn(t)
    \/ FenceAfter(t)
    \/ LockRef(t)
    \/ EdgeLoad(t)
    \/ EdgeStore(t)

Execute == ExecuteBegin \/ EnqueueRoots \/ WaitForFinish \/ ExecuteReturn

ExecNext ==
    \/ Execute
    \/ SetTerminate
    \/ \E t \in {Caller} \cup TaskIds : EnqueueNode(t)
    \/ \E t \in TaskIds : RunNodeAsync(t) \/ FinishNodeRun(t) \/ NotifyAll(t)

Next == PlanNext \/ ExecNext

\* the state after construction of the planner and the executor
Constructed == PlanInit /\ ExecInit

PlanSpecInit == g \in PlanGraphs /\ Constructed

Init == g \in ExecGraphs /\ Constructed

\* the planner alone, over the wide family of graphs
PlanSpec == PlanSpecInit /\ [][PlanNext]_vars

\* the planner and then one Execute
Spec == Init /\ [][Next]_vars

\* the most calls of Execute on one executor that start a node
MaxRuns == 2

\* Execute is called again on the executor that has returned: a new root_frame_ is
\* made, and no member of the executor is assigned before the loop over the root
\* nodes; the tasks that have ended are gone from the pool
ExecuteAgain ==
    /\ th[Caller].pc = "returned"
    /\ \A n \in NodeIds :
          Cardinality({k \in DOMAIN events[n] : events[n][k].hook \in {"Schedule", "Continue"}})
              < MaxRuns
    /\ th' = [t \in DOMAIN th |->
                 IF t = Caller THEN [th[t] EXCEPT !.pc = "roots", !.it = 1]
                 ELSE IF th[t].pc = "done" THEN Locals("unused")
                 ELSE th[t]]
    /\ result' = [returned |-> FALSE, status |-> StatusOK, fetched |-> FALSE]
    /\ UNCHANGED <<g, planner_vars, node_refs_, out_standings_, errors_, terminate_flag_,
                   complete_mutex_, ref_mutex_, events>>

\* the planner, then Execute called on the same executor again and again
RerunNext == Next \/ ExecuteAgain

RerunSpec == Init /\ [][RerunNext]_vars
\* every step a thread of the executor takes: all of ExecNext but the setting of
\* the terminate flag, which is up to the caller of the session
ExecutorStep ==
    \/ Execute
    \/ \E t \in {Caller} \cup TaskIds : EnqueueNode(t)
    \/ \E t \in TaskIds : RunNodeAsync(t) \/ FinishNodeRun(t) \/ NotifyAll(t)

\* Spec with fair scheduling of the executor: as long as the caller in Execute or
\* a task of the pool can take a step, one of them does; nothing obliges anyone to
\* set the terminate flag
FairSpec == Spec /\ WF_vars(ExecutorStep)

-----------------------------------------------------------------------------
(* Reading the history *)

\* the positions in node n's history where the hook was logged
HookAt(n, hook) == {k \in DOMAIN events[n] : events[n][k].hook = hook}

\* the kernel of node n has been called / has returned OK
ComputeStarted(n) == HookAt(n, "Compute") # {}
ComputeCompleted(n) == \E k \in HookAt(n, "ComputeReturn") : events[n][k].provider = "ok"

\* how often node n was started: handed to the pool or taken on by a chain
StartCount(n) == Cardinality(HookAt(n, "Schedule") \cup HookAt(n, "Continue"))

\* the node whose count task t is about to write back
DecrementTarget(t) == OutputEdges(th[t].cur)[th[t].it]

-----------------------------------------------------------------------------
(* Properties of the executor *)

\* C1: a node's kernel is called only when the kernel of every graph predecessor
\* of the node has been called and has returned OK.
C1_PredecessorsCompleteFirst ==
    \A m \in NodeIds : ComputeStarted(m) => \A n \in Predecessors(m) : ComputeCompleted(n)

\* a node with two predecessors has been started
C1_Witness ==
    \E m \in NodeIds : Cardinality(Predecessors(m)) >= 2 /\ ComputeStarted(m)

\* C2: every node is started at most once, and while a task is between reading
\* and writing back a dependent's count no other task is, and the count is still
\* the one it read.
C2_StartedOnceDecrementAtomic ==
    /\ \A n \in NodeIds : StartCount(n) <= 1
    /\ \A t \in TaskIds : th[t].pc = "edge_store" =>
          /\ th[t].tmp = node_refs_[DecrementTarget(t)]
          /\ \A u \in TaskIds \ {t} : th[u].pc # "edge_store"

\* two tasks have finished sibling predecessors of one node: one is in the middle
\* of the decrement, the other waits for the lock
C2_Witness ==
    \E t, u \in TaskIds :
        /\ t # u
        /\ th[t].pc = "edge_store"
        /\ th[u].pc = "lock_ref"
        /\ DecrementTarget(t) \in Range(OutputEdges(th[u].node_index))

\* C3: with fair scheduling every Execute that was entered returns, with nothing
\* outstanding, whether the tasks succeed, fail or are cancelled.
C3_ExecuteReturns ==
    (th[Caller].pc = "roots") ~> (result.returned /\ out_standings_ = 0)

\* the caller sleeps in the wait while a failure is recorded and a task is still
\* outstanding
C3_Witness ==
    /\ th[Caller].pc = "waiting"
    /\ errors_ # <<>>
    /\ out_standings_ > 0

\* the outputs of node w that the finished plan computes in place of an input the
\* kernel may overwrite (no alias obliges it)
InPlaceOutputs(w) ==
    {v \in Range(g.nodes[w].outputs) :
        /\ Exists(v)
        /\ plan_pc = "done"
        /\ g.nodes[w].alias = <<>>
        /\ allocation_plan[v].alloc_kind = "kReuse"}

\* the values that were stored in v's buffer before v: same root, defined earlier
\* in the plan or before the run
EarlierValuesIn(v) ==
    {u \in ValueIds \ {v} :
        /\ Buffer(ort_value_info_, u) = Buffer(ort_value_info_, v)
        /\ Producer(u) < Producer(v)}

\* the nodes that read value u
Readers(u) == {r \in NodeIds : u \in Range(ArgSlots(g.nodes[r]))}

\* the kernel of node n is running
Computing(n) == \E t \in TaskIds : th[t].pc = "computing" /\ th[t].node_index = n

\* C4: when the plan lets a node write an output in place of an input, no other
\* node that reads a value stored in that buffer before runs its kernel once the
\* writer's kernel has been called.
C4_NoReaderOverlapsInPlaceWriter ==
    \A w \in NodeIds : \A v \in InPlaceOutputs(w) : \A u \in EarlierValuesIn(v) :
        \A r \in Readers(u) \ {w} : ~(ComputeStarted(w) /\ Computing(r))

\* the arguments of node n that carry a fence
FencedInputs(n) == {a \in Range(ArgSlots(g.nodes[n])) : Exists(a) /\ FenceOf(a)}
FencedOutputs(n) == {a \in Range(g.nodes[n].outputs) : Exists(a) /\ FenceOf(a)}

\* the hook was logged for value a in node n's history before position k
LoggedBefore(n, k, hook, a) ==
    \E j \in 1..(k - 1) : events[n][j].hook = hook /\ events[n][j].value = a

\* all After hooks of node n were logged before position k
AfterHooksBefore(n, k) ==
    /\ \A a \in FencedInputs(n) : LoggedBefore(n, k, "AfterUsedAsInput", a)
    /\ \A a \in FencedOutputs(n) : LoggedBefore(n, k, "AfterUsedAsOutput", a)

\* C5: for a node with fences, every Before hook of its fenced inputs, implicit
\* inputs and outputs is called before its kernel and none after; every After hook
\* is called after the kernel has returned, and all of them before the count of any
\* dependent is decremented.
C5_FenceHooksAroundCompute ==
    \A n \in NodeIds : plan_pc = "done" /\ node_has_fence[n] =>
        /\ \A k \in HookAt(n, "Compute") :
              /\ \A a \in FencedInputs(n) : LoggedBefore(n, k, "BeforeUsingAsInput", a)
              /\ \A a \in FencedOutputs(n) : LoggedBefore(n, k, "BeforeUsingAsOutput", a)
        /\ \A k \in HookAt(n, "BeforeUsingAsInput") \cup HookAt(n, "BeforeUsingAsOutput") :
              \A c \in HookAt(n, "Compute") : k < c
        /\ \A k \in HookAt(n, "AfterUsedAsInput") \cup HookAt(n, "AfterUsedAsOutput") :
              \E c \in HookAt(n, "ComputeReturn") : c < k
        /\ \A d \in HookAt(n, "Decrement") : AfterHooksBefore(n, d)
        /\ \A t \in TaskIds :
              th[t].pc = "lock_ref" /\ th[t].node_index = n
                  => AfterHooksBefore(n, Len(events[n]) + 1)

\* a node with fenced inputs and fenced outputs has run and has decremented the
\* count of a dependent
C5_Witness ==
    \E n \in NodeIds :
        /\ plan_pc = "done"
        /\ node_has_fence[n]
        /\ FencedInputs(n) # {}
        /\ FencedOutputs(n) # {}
        /\ HookAt(n, "Decrement") # {}

\* C6 as stated: a chain that comes to the head of its loop after an error has been
\* recorded stops there and does not go on to another node's kernel.
C6_ChainStopsAfterError ==
    [][\A t \in TaskIds :
          th[t].pc = "loop" /\ errors_ # <<>> /\ th'[t].pc # "loop" => th'[t].pc = "finish"]_vars

\* C6: a chain that comes to the head of its loop stops there exactly when the
\* terminate flag is set; recorded errors do not stop it, it goes on to the fence
\* hooks and the kernel of the dependent it took on.
C6_ChainStopsOnlyOnTerminate ==
    [][\A t \in TaskIds :
          th[t].pc = "loop" /\ th'[t].pc # "loop"
              => /\ th'[t].pc = "finish" <=> terminate_flag_
                 /\ th'[t].pc = "fence_before" <=> ~terminate_flag_]_vars

\* an error has been recorded, the terminate flag is not set, and a chain has gone
\* on to a dependent whose kernel it is about to call
C6_Witness ==
    \E t \in TaskIds :
        /\ errors_ # <<>>
        /\ ~terminate_flag_
        /\ th[t].pc = "loop"
        /\ th[t].node_index # th[t].p_node_index

\* C7: out_standings_ is incremented only while errors_ is empty, and a call of
\* EnqueueNode that finds errors_ non-empty returns without incrementing
\* out_standings_ and without handing a task to the pool.
C7_EnqueueNoOpAfterError ==
    [][/\ out_standings_' > out_standings_ => errors_ = <<>> /\ errors_' = <<>>
       /\ \A t \in {Caller} \cup TaskIds :
             th[t].pc = "enqueue" /\ errors_ # <<>> /\ th'[t].pc # "enqueue"
                 => /\ th'[t].pc = th[t].ret
                    /\ out_standings_' = out_standings_
                    /\ \A u \in TaskIds : th'[u].pc = "queued" => th[u].pc = "queued"
                    /\ events' = events]_vars

\* the caller has passed all roots, an error was recorded, and a root was never
\* started: its EnqueueNode was a no-op
C7_Witness ==
    /\ th[Caller].pc \in {"wait", "waiting", "collect", "returned"}
    /\ errors_ # <<>>
    /\ \E n \in Range(GetRootNodes) : StartCount(n) = 0

\* the tasks whose body ended with a failure
FailedTasks == {t \in TaskIds : th[t].status.code = "FAIL"}

Cancelled == {t \in TaskIds : th[t].status.error = TerminateFlagSet}

\* C9: a task that comes to the head of its loop while the terminate flag is set
\* goes straight to its end with a failure, without a hook, a kernel call or a
\* decrement; the kernel of the node it stopped at is never called and the node
\* decrements no dependent; the failure is recorded when the task ends, and Execute
\* returns a failure.  A kernel that is running is left only by its own return.
C9_TerminateStopsChain ==
    [][/\ \A t \in TaskIds :
             th[t].pc \in {"queued", "loop"} /\ terminate_flag_ /\ th'[t].pc # th[t].pc
                 => /\ th'[t].pc = "finish"
                    /\ th'[t].status = ExceptionStatus(th[t].p_node_index, TerminateFlagSet)
                    /\ events' = events
                    /\ node_refs_' = node_refs_
       /\ \A t \in Cancelled :
             /\ events'[th[t].node_index] = events[th[t].node_index]
             /\ HookAt(th[t].node_index, "Compute") = {}
             /\ HookAt(th[t].node_index, "Decrement") = {}
             /\ th[t].pc = "finish" /\ th'[t].pc # "finish"
                    => errors_' = Append(errors_, th[t].status)
             /\ result'.returned => result'.status.code = "FAIL" /\ th[t].status \in Range(errors_)
       /\ \A t \in TaskIds :
             th[t].pc = "computing" /\ th'[t].pc # "computing"
                 => /\ Len(events'[th[t].node_index]) = Len(events[th[t].node_index]) + 1
                    /\ events'[th[t].node_index][Len(events'[th[t].node_index])].hook
                           = "ComputeReturn"]_vars

\* Execute has returned after a chain was stopped by the terminate flag at a node
\* it had gone on to, while another kernel was running
C9_Witness ==
    /\ result.returned
    /\ \E t \in Cancelled : th[t].node_index # th[t].p_node_index

-----------------------------------------------------------------------------
(* Properties of the plan *)

\* the values the plan frees after step s: to_be_freed[free_from_index..free_to_index]
FreedAtStep(s) ==
    {to_be_freed[i + 1] :
        i \in execution_plan[s + 1].free_from_index .. execution_plan[s + 1].free_to_index}

\* the inputs and implicit inputs of the node of step s
StepInputs(s) ==
    {a \in Range(ArgSlots(g.nodes[execution_plan[s + 1].node_index])) : Exists(a)}

\* C10: in a finished plan, every value a step frees had use count 0 when the
\* planning of that step ended, and no later step has an input or implicit input
\* with the same root buffer.
C10_FreedValuesAreDead ==
    plan_pc = "done" =>
        \A s \in 0..(NumSteps - 1) : \A v \in FreedAtStep(s) :
            /\ usecount_at_end[s + 1][v] = 0
            /\ \A later \in (s + 1)..(NumSteps - 1) : \A u \in StepInputs(later) :
                  Buffer(ort_value_info_, u) # Buffer(ort_value_info_, v)

\* a finished plan frees a buffer that a second value reused, after a step that is
\* not the last one
C10_Witness ==
    /\ plan_pc = "done"
    /\ \E s \in 0..(NumSteps - 2) : \E v \in FreedAtStep(s) :
          \E w \in ValueIds \ {v} : allocation_plan[w].alloc_kind = "kReuse"
                                       /\ allocation_plan[w].reused_buffer = v

\* the positions of to_be_freed that step s frees
FreeRange(s) ==
    execution_plan[s + 1].free_from_index .. execution_plan[s + 1].free_to_index

\* the buffers left on the freelist that were released while step s was planned
ReleasedAtStep(s) ==
    {freelist_[i].ml_value : i \in {j \in DOMAIN freelist_ : freelist_[j].deallocate_point = s}}

\* C11: after the deallocation pass the range of every step holds exactly the values
\* released at that step, every entry of to_be_freed lies in the range of exactly one
\* step, and a step that releases nothing has free_from_index > free_to_index.
C11_RangesHoldReleasedValues ==
    plan_pc = "done" =>
        /\ \A s \in 0..(NumSteps - 1) :
              /\ FreeRange(s) \subseteq 0..(Len(to_be_freed) - 1)
              /\ FreedAtStep(s) = ReleasedAtStep(s)
              /\ ReleasedAtStep(s) = {} =>
                     execution_plan[s + 1].free_from_index > execution_plan[s + 1].free_to_index
        /\ \A i \in 0..(Len(to_be_freed) - 1) :
              Cardinality({s \in 0..(NumSteps - 1) : i \in FreeRange(s)}) = 1

\* the values the caller owns or receives: graph inputs, outer-scope args, graph outputs
CallerValues == Range(g.inputs) \cup Range(g.outer_scope) \cup Range(g.outputs)

\* C12: no graph input, outer-scope reference or graph output is in to_be_freed, and
\* neither is the buffer such a value lives in, also when other values reuse or
\* share that buffer.
C12_CallerValuesNeverFreed ==
    plan_pc = "done" =>
        \A v \in CallerValues :
            /\ v \notin Range(to_be_freed)
            /\ Buffer(ort_value_info_, v) \notin Range(to_be_freed)

\* a finished plan frees something, and the buffer of a graph input or graph output is
\* reused by a second value
C12_Witness ==
    /\ plan_pc = "done"
    /\ to_be_freed # <<>>
    /\ \E v \in Range(g.inputs) \cup Range(g.outputs) : \E w \in ValueIds \ {v} :
          /\ allocation_plan[w].alloc_kind = "kReuse"
          /\ allocation_plan[w].reused_buffer = v

\* the 1-based position of value v in the node's OutputDefs
OutputPosition(node, v) == CHOOSE i \in DOMAIN node.outputs : node.outputs[i] = v

\* output_arg_num when ComputeReusePlan reaches output v: the number of existing
\* outputs declared before it
OutputArgNum(node, v) ==
    Cardinality({j \in 1..(OutputPosition(node, v) - 1) : Exists(node.outputs[j])})

\* the inputs for which the alias loop of FindReusableInput returns when it is
\* called for output v
AliasedInputs(v) ==
    LET node == g.nodes[Producer(v)] IN
    {node.inputs[node.alias[i][1] + 1] :
        i \in UsablePairs(node.alias, node, OutputArgNum(node, v))}

\* values whose plan is kReuse of a buffer of kind kPreExisting
ReusersOfPreExisting ==
    {v \in ValueIds :
        /\ allocation_plan[v].alloc_kind = "kReuse"
        /\ allocation_plan[allocation_plan[v].reused_buffer].alloc_kind = "kPreExisting"}

AliasPairs(n) ==
    {p \in Range(g.nodes[n].alias) :
        /\ 0 <= p[1] /\ p[1] < Len(g.nodes[n].inputs) /\ Exists(g.nodes[n].inputs[p[1] + 1])
        /\ 0 <= p[2] /\ p[2] < Len(g.nodes[n].outputs) /\ Exists(g.nodes[n].outputs[p[2] + 1])}

\* C14: every node output whose slot the kernel's alias_map pairs with an existing
\* input u is planned as kReuse of the root of u.
C14_AliasedOutputsReuseInput ==
    plan_pc = "done" =>
        \A n \in NodeIds : \A p \in AliasPairs(n) :
            LET u == g.nodes[n].inputs[p[1] + 1]
                v == g.nodes[n].outputs[p[2] + 1]
            IN  /\ allocation_plan[v].alloc_kind = "kReuse"
                /\ allocation_plan[v].reused_buffer = Buffer(ort_value_info_, u)

\* the step that defines value v; -1 for values that exist before the first step
DefStep(v) ==
    IF Producer(v) = 0 THEN -1
    ELSE CHOOSE s \in 0..(NumSteps - 1) : execution_plan[s + 1].node_index = Producer(v)

\* values planned as kReuse or kShare of another value's buffer
Sharers == {v \in ValueIds : allocation_plan[v].alloc_kind \in {"kReuse", "kShare"}}

RootKinds == {"kAllocate", "kPreExisting", "kAllocateStatically", "kAllocateOutput"}

\* C15: for each value v planned kReuse or kShare of u: u differs from v, u is defined
\* no later than v, and u is a root (its own buffer, of kind kAllocate, kPreExisting,
\* kAllocateStatically or kAllocateOutput), so reuse chains have length one.
C15_ReuseChainsCollapsed ==
    plan_pc = "done" =>
        \A v \in Sharers :
            LET u == allocation_plan[v].reused_buffer IN
            /\ u # v
            /\ DefStep(u) <= DefStep(v)
            /\ Buffer(ort_value_info_, u) = u
            /\ Buffer(ort_value_info_, v) = u
            /\ allocation_plan[u].alloc_kind \in RootKinds

\* a finished plan in which a value reuses the buffer of an input that itself reuses
\* another value: the plan names the root for both
C15_Witness ==
    /\ plan_pc = "done"
    /\ \E v \in Sharers : \E w \in Range(g.nodes[Producer(v)].inputs) \cap Sharers :
          /\ allocation_plan[v].reused_buffer = allocation_plan[w].reused_buffer
          /\ allocation_plan[w].reused_buffer # w

\* C16: every value planned kReuse of u has the location of u, whichever rule made
\* the reuse.
C16_ReuseKeepsLocation ==
    plan_pc = "done" =>
        \A v \in ValueIds :
            allocation_plan[v].alloc_kind = "kReuse" =>
                allocation_plan[v].location =
                    allocation_plan[allocation_plan[v].reused_buffer].location

\* the roots of the buffers of the existing inputs of the node that produces v
InputRoots(v) ==
    {Buffer(ort_value_info_, u) :
        u \in {a \in Range(g.nodes[Producer(v)].inputs) : Exists(a)}}

\* g is the diamond A -> {B, C} -> D, whatever its kernels
IsDiamond ==
    /\ Len(g.nodes) = 4
    /\ \A n \in 1..4 : /\ g.nodes[n].inputs = DiamondGraph(2).nodes[n].inputs
                       /\ g.nodes[n].outputs = DiamondGraph(2).nodes[n].outputs

\* C17: in a plan made for parallel execution every kReuse names the root of one of
\* the producing node's inputs (no buffer is taken from the freelist), and in the
\* parallel diamond D_out is not kReuse.
C17_NoFreelistReuseInParallel ==
    (plan_pc = "done" /\ g.parallel) =>
        /\ \A v \in ValueIds :
              allocation_plan[v].alloc_kind = "kReuse" =>
                  /\ Producer(v) # 0
                  /\ allocation_plan[v].reused_buffer \in InputRoots(v)
        /\ IsDiamond => allocation_plan[4].alloc_kind # "kReuse"

\* a plan made for parallel execution allocates an output although a released buffer
\* of the same size and location was on the freelist when the output was planned
C17_Witness ==
    /\ plan_pc = "done" /\ g.parallel
    /\ \E v \in ValueIds :
          /\ Producer(v) # 0
          /\ allocation_plan[v].alloc_kind = "kAllocate"
          /\ \E s \in 0..(DefStep(v) - 1) : \E r \in ReleasedAtStep(s) :
                /\ SameSize(r, v)
                /\ allocation_plan[r].location = allocation_plan[v].location

\* v is an input, implicit input or output of a node whose kernel is on a queue other
\* than 0
OnAsyncQueue(v) == \E n \in NodeIds : g.nodes[n].queue # 0 /\ v \in NodeDefs(g.nodes[n])

\* C18 as stated: a node's fence flag is set iff the root of the buffer of one of its
\* inputs, implicit inputs or outputs is produced or consumed on a non-default queue.
C18_FenceIffRootOnAsyncQueue ==
    plan_pc = "done" =>
        \A n \in NodeIds :
            node_has_fence[n] <=>
                \E w \in NodeDefs(g.nodes[n]) : OnAsyncQueue(Buffer(ort_value_info_, w))

\* C18, amended: a node's fence flag is set iff one of its inputs, implicit inputs or
\* outputs is itself produced or consumed on a non-default queue, or is planned kReuse
\* of a buffer whose value is.
C18_FenceIffValueOrReusedOnAsyncQueue ==
    plan_pc = "done" =>
        \A n \in NodeIds :
            node_has_fence[n] <=>
                \E w \in NodeDefs(g.nodes[n]) :
                    \/ OnAsyncQueue(w)
                    \/ /\ allocation_plan[w].alloc_kind = "kReuse"
                       /\ OnAsyncQueue(allocation_plan[w].reused_buffer)

\* a finished plan with a node whose fence flag is set only because one of its values
\* reuses the buffer of a value of a non-default queue
C18_Witness ==
    /\ plan_pc = "done"
    /\ \E n \in NodeIds :
          /\ node_has_fence[n]
          /\ \A w \in NodeDefs(g.nodes[n]) : ~OnAsyncQueue(w)

\* g is the chain A -> B -> C of float32[4] nodes, A and B with MayInplace (0,0) and
\* no alias; values 1 = A_out, 2 = B_out, 3 = C_out (the graph output)
IsInplaceChain ==
    /\ Len(g.nodes) = 3
    /\ \A n \in 1..3 : /\ g.nodes[n].inputs = DiamondGraph(1).nodes[n].inputs
                       /\ g.nodes[n].outputs = DiamondGraph(1).nodes[n].outputs
    /\ g.values = DiamondGraph(1).values
    /\ g.outputs = <<3>>
    /\ \A n \in 1..2 : g.nodes[n].inplace = <<<<0, 0>>>> /\ g.nodes[n].alias = <<>>

\* the allocation the chain gets: A_out allocated, B_out in the buffer of A_out,
\* C_out the graph output, and A_out the only value to free
InplaceChainAllocation ==
    /\ allocation_plan[1].alloc_kind = "kAllocate"
    /\ allocation_plan[2].alloc_kind = "kReuse" /\ allocation_plan[2].reused_buffer = 1
    /\ allocation_plan[3].alloc_kind = "kAllocateOutput"
    /\ to_be_freed = <<1>>

\* C19 as stated: the chain's plan is A_out kAllocate, B_out kReuse of A_out, C_out
\* kAllocateOutput, to_be_freed = [A_out], and A_out is freed after the step of B.
C19_ChainFreedAtStepOfB ==
    (plan_pc = "done" /\ IsInplaceChain) =>
        /\ InplaceChainAllocation
        /\ FreedAtStep(1) = {1}

\* C19, amended: the same allocation, and A_out is freed after the step of C, the
\* last reader of the buffer; the steps of A and B free nothing.
C19_ChainFreedAtStepOfC ==
    (plan_pc = "done" /\ IsInplaceChain) =>
        /\ InplaceChainAllocation
        /\ FreedAtStep(2) = {1}
        /\ FreedAtStep(0) = {} /\ FreedAtStep(1) = {}

\* the plan of the chain is finished and frees A_out
C19_Witness ==
    /\ plan_pc = "done" /\ IsInplaceChain
    /\ 1 \in FreedAtStep(2)

\* every kernel of g is without alias_map and inplace_map
PlainKernels == \A n \in NodeIds : g.nodes[n].alias = <<>> /\ g.nodes[n].inplace = <<>>

\* g is the diamond followed by the node E that reads D_out
IsSinkDiamond ==
    /\ Len(g.nodes) = 5
    /\ \A n \in 1..5 : /\ g.nodes[n].inputs = SinkDiamondGraph.nodes[n].inputs
                       /\ g.nodes[n].outputs = SinkDiamondGraph.nodes[n].outputs

\* C20 as stated: in the sequential diamond with equal shapes B_out and C_out are
\* allocated, D_out is kReuse of B_out, and to_be_freed is [A_out, B_out, C_out].
C20_DiamondReusesBOut ==
    (plan_pc = "done" /\ IsDiamond /\ PlainKernels /\ ~g.parallel) =>
        /\ allocation_plan[2].alloc_kind = "kAllocate"
        /\ allocation_plan[3].alloc_kind = "kAllocate"
        /\ allocation_plan[4].alloc_kind = "kReuse" /\ allocation_plan[4].reused_buffer = 2
        /\ to_be_freed = <<1, 2, 3>>

\* C20, amended: in the sequential diamond B_out and C_out are allocated; D_out, the
\* graph output, is kAllocateOutput and to_be_freed is [A_out, B_out, C_out]; when
\* D_out is not a graph output but read by a later node, D_out is kReuse of A_out,
\* the only buffer on the freelist when D is planned, and to_be_freed is
\* [B_out, C_out, A_out].
C20_DiamondReusesOnlyAOut ==
    (plan_pc = "done" /\ PlainKernels /\ ~g.parallel) =>
        /\ IsDiamond =>
              /\ allocation_plan[2].alloc_kind = "kAllocate"
              /\ allocation_plan[3].alloc_kind = "kAllocate"
              /\ allocation_plan[4].alloc_kind = "kAllocateOutput"
              /\ to_be_freed = <<1, 2, 3>>
        /\ IsSinkDiamond =>
              /\ allocation_plan[2].alloc_kind = "kAllocate"
              /\ allocation_plan[3].alloc_kind = "kAllocate"
              /\ allocation_plan[4].alloc_kind = "kReuse" /\ allocation_plan[4].reused_buffer = 1
              /\ to_be_freed = <<2, 3, 1>>

\* the sequential plan of the diamond whose D_out is read by a later node is
\* finished, and D_out has taken a buffer from the freelist
C20_Witness ==
    /\ plan_pc = "done" /\ PlainKernels /\ ~g.parallel /\ IsSinkDiamond
    /\ allocation_plan[4].alloc_kind = "kReuse"
    /\ allocation_plan[4].reused_buffer \notin InputRoots(4)

\* v is the output of an Identity node of a Loop's subgraph whose first input is a
\* graph input or an outer-scope value
LoopPassThrough(v) ==
    /\ g.parent_op = "Loop"
    /\ g.nodes[Producer(v)].op_type = "Identity"
    /\ g.nodes[Producer(v)].inputs[1] \in Range(g.inputs) \cup Range(g.outer_scope)

\* C21: every node output that is a graph output is planned kAllocateOutput, never
\* kReuse, whatever the kernel's alias_map and inplace_map and the freelist hold;
\* only the output of an Identity in a Loop's subgraph whose first input is a graph
\* input or outer-scope value is planned kShare of that input.
C21_GraphOutputsNeverReuse ==
    plan_pc = "done" =>
        \A v \in Range(g.outputs) :
            Producer(v) # 0 =>
                IF LoopPassThrough(v)
                THEN /\ allocation_plan[v].alloc_kind = "kShare"
                     /\ allocation_plan[v].reused_buffer = g.nodes[Producer(v)].inputs[1]
                ELSE allocation_plan[v].alloc_kind = "kAllocateOutput"

\* a finished sequential plan whose graph output comes from a kernel that aliases an
\* input, with a released buffer of the output's size at hand
C21_Witness ==
    /\ plan_pc = "done" /\ ~g.parallel
    /\ \E v \in Range(g.outputs) :
          /\ Producer(v) # 0
          /\ AliasedInputs(v) # {}
          /\ allocation_plan[v].alloc_kind = "kAllocateOutput"
          /\ \E s \in 0..(DefStep(v) - 1) : \E r \in ReleasedAtStep(s) : SameSize(r, v)

\* C22: when ComputeUseCounts meets a node without kernel definition or execution
\* provider, CreatePlan returns without running the later passes and the caller's
\* plan holds no steps and no allocation decisions.
C22_FailedPlanIsEmpty ==
    plan_pc = "failed" =>
        /\ plan_status # "OK"
        /\ freelist_ = <<>> /\ to_be_freed = <<>>
        /\ \A n \in NodeIds : ~node_has_fence[n]
        /\ execution_plan = <<>>
        /\ allocation_plan = <<>>

\* the inputs in place of which the in-place loop of FindReusableInput computed
\* output v: v is a tensor, not a graph output, no alias pair names its slot, a
\* MayInplace pair does, and the plan gives v the buffer of that input
InPlaceSources(v) ==
    LET node == g.nodes[Producer(v)] IN
    IF \/ v \in Range(g.outputs)
       \/ IsNonTensor(v)
       \/ ~node.has_kernel
       \/ AliasedInputs(v) # {}
       \/ allocation_plan[v].alloc_kind # "kReuse"
    THEN {}
    ELSE {u \in {node.inputs[node.inplace[i][1] + 1] :
                    i \in UsablePairs(node.inplace, node, OutputArgNum(node, v))} :
             allocation_plan[v].reused_buffer = Buffer(ort_value_info_, u)}

NextOutput ==
    LET node == g.nodes[execution_plan[program_counter + 1].node_index]
        present == {i \in DOMAIN node.outputs : Exists(node.outputs[i])}
    IN  IF present = {} THEN -1 ELSE node.outputs[Min(present)]

\* the first output of the node planned next is neither a graph output, nor a
\* non-tensor, nor planned by FindReusableInput: the freelist is its last resort
NextOutputNeedsBuffer ==
    LET node == g.nodes[execution_plan[program_counter + 1].node_index] IN
    /\ Exists(NextOutput)
    /\ NextOutput \notin Range(g.outputs)
    /\ ~IsNonTensor(NextOutput)
    /\ ~FindReusableInput(ort_value_info_, node, 0).found

\* the freelist positions, front first, whose buffer has the location of v and a
\* known shape of the same size as the known shape of v
SameSizeEntries(v) ==
    {i \in DOMAIN freelist_ :
        LET r == freelist_[i].ml_value IN
        /\ allocation_plan[r].location = allocation_plan[v].location
        /\ g.values[r].shape.known /\ g.values[v].shape.known
        /\ g.values[r].elem_size = g.values[v].elem_size
        /\ SameShape(g.values[r].shape, g.values[v].shape)}

\* C26: when a step of a sequential plan is planned, every freelist entry was
\* released at an earlier step and the most recent release is at the front; an
\* output left to the freelist rule gets kReuse of the first entry from the front
\* that has its location and a known shape of the same size as its own known shape,
\* and that entry leaves the freelist; with no such entry (so whenever the output's
\* shape is unknown) it gets kAllocate, and entries of unknown shape are never taken.
C26_FreelistPickIsFirstFit ==
    [][(plan_pc = "reuse" /\ program_counter' = program_counter + 1) =>
          /\ \A i \in DOMAIN freelist_ :
                /\ freelist_[i].deallocate_point < program_counter
                /\ \A j \in DOMAIN freelist_ :
                      i < j => freelist_[i].deallocate_point >= freelist_[j].deallocate_point
          /\ (~g.parallel /\ NextOutputNeedsBuffer) =>
                LET v == NextOutput
                    fits == SameSizeEntries(v)
                IN  IF fits = {}
                    THEN allocation_plan'[v].alloc_kind = "kAllocate"
                    ELSE LET r == freelist_[Min(fits)].ml_value IN
                         /\ allocation_plan'[v].alloc_kind = "kReuse"
                         /\ allocation_plan'[v].reused_buffer = r
                         /\ \A j \in DOMAIN freelist_' :
                               freelist_'[j].ml_value = r =>
                                   freelist_'[j].deallocate_point = program_counter]_vars

\* a finished sequential plan in which the freelist rule had a choice: v reuses a
\* buffer that none of its node's inputs holds, while a buffer of the same size and
\* location and a buffer of unknown shape, both released before v's step, were
\* left on the freelist
C26_Witness ==
    /\ plan_pc = "done" /\ ~g.parallel
    /\ \E v \in {x \in ValueIds : Producer(x) # 0} :
          /\ allocation_plan[v].alloc_kind = "kReuse"
          /\ allocation_plan[v].reused_buffer \notin InputRoots(v)
          /\ \E i, j \in DOMAIN freelist_ :
                /\ freelist_[i].deallocate_point < DefStep(v)
                /\ freelist_[j].deallocate_point < DefStep(v)
                /\ SameSize(freelist_[i].ml_value, v)
                /\ allocation_plan[freelist_[i].ml_value].location = allocation_plan[v].location
                /\ ~g.values[freelist_[j].ml_value].shape.known

\* node n runs on queue 0 and reads, as input or implicit input, an output of a node
\* that runs on another queue
ReadsAsyncOutput(n) ==
    /\ g.nodes[n].queue = 0
    /\ \E m \in NodeIds :
          /\ g.nodes[m].queue # 0
          /\ \E w \in Range(g.nodes[m].outputs) : Exists(w) /\ w \in Range(ArgSlots(g.nodes[n]))

\* C27: in a finished plan create_fence_if_async of a value is set iff a node on a
\* queue other than 0 has the value as input, implicit input or output; the fence
\* flag of a node is set iff one of its inputs, implicit inputs or outputs has
\* create_fence_if_async set or is kReuse of a buffer that has; and so every queue-0
\* node that reads an output of a node on another queue has its fence flag set.
C27_FenceFlagsFollowQueues ==
    plan_pc = "done" =>
        /\ \A v \in ValueIds :
              allocation_plan[v].create_fence_if_async <=>
                  \E n \in NodeIds : g.nodes[n].queue # 0 /\ v \in NodeDefs(g.nodes[n])
        /\ \A n \in NodeIds :
              node_has_fence[n] <=>
                  \E w \in NodeDefs(g.nodes[n]) :
                      \/ allocation_plan[w].create_fence_if_async
                      \/ /\ allocation_plan[w].alloc_kind = "kReuse"
                         /\ allocation_plan[allocation_plan[w].reused_buffer].create_fence_if_async
        /\ \A n \in NodeIds : ReadsAsyncOutput(n) => node_has_fence[n]

\* a finished plan with a queue-0 node that reads the output of a queue-1 node, and
\* with another node that no fence concerns
C27_Witness ==
    /\ plan_pc = "done"
    /\ \E n \in NodeIds : ReadsAsyncOutput(n) /\ node_has_fence[n]
    /\ \E n \in NodeIds : ~node_has_fence[n]
\* the locations of the sites where nodes read initializer w as a regular input
InputSites(w) ==
    UNION {{GetLocationForNodeInput(i - 1, g.nodes[n]) :
               i \in {j \in DOMAIN g.nodes[n].inputs : g.nodes[n].inputs[j] = w}} :
           n \in NodeIds}

\* C28: in a finished plan every initializer is kAllocateStatically, whether nodes
\* read it as a regular input, only as an implicit input, or not at all; where it
\* has reading sites its location is their common location, or the default CPU
\* location when two sites differ.
C28_InitializersAreStatic ==
    plan_pc = "done" =>
        \A w \in g.initializers :
            /\ allocation_plan[w].alloc_kind = "kAllocateStatically"
            /\ InputSites(w) # {} =>
                  allocation_plan[w].location =
                      IF Cardinality(InputSites(w)) = 1
                      THEN CHOOSE l \in InputSites(w) : TRUE
                      ELSE DefaultCpuMemoryInfo
\* tasks handed to the pool whose body has not yet made the decrement of FinishNodeRun
Unfinished == {t \in TaskIds : th[t].pc \notin {"unused", "done", "notify"}}

\* threads in EnqueueNode between out_standings_++ and the call of Schedule
Handing == {t \in {Caller} \cup TaskIds : th[t].pc = "schedule"}

\* C24: out_standings_ is the number of tasks that were enqueued (counted by
\* EnqueueNode) and have not finished (FinishNodeRun has not counted them off), it
\* is never negative, and once Execute has left its wait no task is enqueued or
\* executing a node, in that state and in every later one.
C24_OutstandingCountsUnfinishedTasks ==
    /\ out_standings_ = Cardinality(Unfinished) + Cardinality(Handing)
    /\ out_standings_ >= 0
    /\ th[Caller].pc \in {"collect", "returned"} => Unfinished = {} /\ Handing = {}

\* Execute has left its wait after two or more tasks ran
C24_Witness ==
    /\ th[Caller].pc = "collect"
    /\ Cardinality({t \in TaskIds : th[t].pc \in {"done", "notify"}}) >= 2

-----------------------------------------------------------------------------
(* Properties of repeated runs *)

\* the caller has entered Execute and has not yet looked at a root node
ExecuteEntered == th[Caller].pc = "roots" /\ th[Caller].it = 1

\* C23: at the start of every Execute call, also a second one on the same executor,
\* node_refs_[n] is the input-edge count of every node n, out_standings_ is 0 and
\* errors_ is empty.
C23_StateFreshAtEveryExecute ==
    ExecuteEntered =>
        /\ node_refs_ = [n \in NodeIds |-> GetInputEdgesCount(n)]
        /\ out_standings_ = 0
        /\ errors_ = <<>>

\* the nodes at which a chain stopped: the kernel returned a failure or threw, or
\* the terminate flag cancelled the chain when it came to the node
StoppedAt ==
    {n \in NodeIds :
        \/ \E k \in HookAt(n, "ComputeReturn") : events[n][k].provider # "ok"
        \/ \E t \in Cancelled : th[t].node_index = n}

\* the nodes that have a node of S as direct or transitive predecessor, S included
RECURSIVE Closure(_, _)
Closure(S, k) ==
    IF k = 0 THEN S
    ELSE Closure(S \cup {m \in NodeIds : Predecessors(m) \cap S # {}}, k - 1)

Dependents(n) == Closure({m \in NodeIds : n \in Predecessors(m)}, Len(g.nodes))

\* C30: for a node at which a chain stopped (failed kernel or cancellation), no
\* fence-after hook of the node is called, the node decrements the count of no
\* dependent, and no node that has it as direct or transitive predecessor is started
\* or has its kernel called.
C30_FailureStopsDependents ==
    \A n \in StoppedAt :
        /\ HookAt(n, "AfterUsedAsInput") \cup HookAt(n, "AfterUsedAsOutput") = {}
        /\ HookAt(n, "Decrement") = {}
        /\ \A m \in Dependents(n) : StartCount(m) = 0 /\ HookAt(m, "Compute") = {}

\* Execute has returned after the kernel of a fenced node with dependents failed
\* while the other branch of the diamond completed
C30_Witness ==
    /\ result.returned
    /\ \E n \in StoppedAt :
          /\ HookAt(n, "ComputeReturn") # {}
          /\ HookAt(n, "BeforeUsingAsInput") # {}
          /\ Dependents(n) # {}
          /\ \E b \in NodeIds \ {n} :
                /\ ComputeCompleted(b)
                /\ Dependents(b) \cap Dependents(n) # {}
                /\ n \notin Dependents(b)
\* how often Execute has been called: while errors_ is empty every call hands every
\* root node to the pool once
ExecuteCalls ==
    IF Len(GetRootNodes) = 0 THEN 0
    ELSE Cardinality(HookAt(GetRootNodes[1], "Schedule"))

\* C29: when Execute has returned OK, the kernel of every node was called once in
\* each run so far, so also once in the run that returned, and every call returned OK.
C29_SuccessMeansEveryNodeRanOnce ==
    (result.returned /\ result.status = StatusOK) =>
        \A n \in NodeIds :
            /\ Cardinality(HookAt(n, "Compute")) = ExecuteCalls
            /\ Cardinality(HookAt(n, "ComputeReturn")) = ExecuteCalls
            /\ \A k \in HookAt(n, "ComputeReturn") : events[n][k].provider = "ok"

\* the loop over pnode->OutputDefs() with each output planned under its declared
\* position in the list
RECURSIVE PlanOutputsDeclared(_, _, _)
PlanOutputsDeclared(st, node, i) ==
    IF i > Len(node.outputs) THEN st
    ELSE IF ~Exists(node.outputs[i]) THEN PlanOutputsDeclared(st, node, i + 1)
    ELSE PlanOutputsDeclared(PlanOutput(st, node, node.outputs[i], i - 1), node, i + 1)

\* C31: every step of ComputeReusePlan plans each existing output of its node with
\* the output's declared position as slot index for alias_map, inplace_map and the
\* output's shape, so the allocation plan after the step is the one that planning by
\* declared position gives, also when an earlier output of the node is absent.
C31_SlotIsDeclaredPosition ==
    [][(plan_pc = "reuse" /\ program_counter' = program_counter + 1) =>
          /\ \A v \in Range(g.nodes[execution_plan[program_counter + 1].node_index].outputs) :
                Exists(v) =>
                    OutputArgNum(g.nodes[Producer(v)], v) = OutputPosition(g.nodes[Producer(v)], v) - 1
          /\ allocation_plan' =
                PlanOutputsDeclared([info |-> ort_value_info_, plan |-> allocation_plan,
                                     freelist |-> freelist_],
                                    g.nodes[execution_plan[program_counter + 1].node_index], 1).plan]_vars

-----------------------------------------------------------------------------
(* Use counts during ComputeReusePlan *)

\* planning has reached the loop of ComputeReusePlan or is past it
ReusePlanning == plan_pc \in {"reuse", "dealloc", "done"}

\* the values that have a buffer once program_counter steps are planned: values that
\* exist before the first step and the outputs of the steps planned so far
Planned(v) == Producer(v) = 0 \/ DefStep(v) < program_counter

\* the values stored so far in the buffer of root r
StoredIn(r) == {w \in ValueIds : Planned(w) /\ Buffer(ort_value_info_, w) = r}

\* the reads of values of StoredIn(r) that steps not yet planned will make, one per
\* input or implicit-input slot
LaterReads(r) ==
    UNION {{<<s, i>> : i \in {j \in DOMAIN ArgSlots(g.nodes[execution_plan[s].node_index]) :
                                ArgSlots(g.nodes[execution_plan[s].node_index])[j] \in StoredIn(r)}} :
           s \in (program_counter + 1)..NumSteps}

\* the uses that are never released: one for a graph input, outer-scope value or
\* initializer, one for a graph output
Sentinels(r) ==
    Cardinality(StoredIn(r) \cap (Range(g.inputs) \cup Range(g.outer_scope) \cup g.initializers))
        + Cardinality(StoredIn(r) \cap Range(g.outputs))

\* C32: while and after ComputeReusePlan runs, after each step, no use count is
\* negative; the count of every root that has a buffer (a value that exists before
\* the first step or is defined by a step planned so far) is the number of reads
\* that later steps make of the values stored in its buffer plus their sentinel
\* uses; every freelist entry is a root with count 0 and no root has two entries;
\* and to_be_freed of the finished plan holds roots only, each once.
C32_CountsAreRemainingUses ==
    ReusePlanning =>
        /\ \A v \in ValueIds : UseCount(ort_value_info_, v) >= 0
        /\ \A r \in ValueIds :
              Planned(r) /\ Buffer(ort_value_info_, r) = r =>
                  UseCount(ort_value_info_, r) = Cardinality(LaterReads(r)) + Sentinels(r)
        /\ \A i \in DOMAIN freelist_ :
              /\ Buffer(ort_value_info_, freelist_[i].ml_value) = freelist_[i].ml_value
              /\ UseCount(ort_value_info_, freelist_[i].ml_value) = 0
              /\ \A j \in DOMAIN freelist_ : freelist_[j].ml_value = freelist_[i].ml_value => j = i
        /\ plan_pc = "done" =>
              \A i \in DOMAIN to_be_freed :
                  /\ Buffer(ort_value_info_, to_be_freed[i]) = to_be_freed[i]
                  /\ \A j \in DOMAIN to_be_freed : to_be_freed[j] = to_be_freed[i] => j = i

\* a finished plan that frees a root which came off the freelist for another value
\* and went back on it when that value's uses were over
C32_Witness ==
    /\ plan_pc = "done"
    /\ \E r \in Range(to_be_freed) : \E w \in StoredIn(r) \ {r} : r \notin InputRoots(w)

====
